---- MODULE Spec2Model ----
(***************************************************************************)
(* The search-query compiler of fastmail-cli (package jmap, filter.go):    *)
(* tokenizer, recursive-descent parser, term interpreter and the ToJMAP    *)
(* rendering of the filter tree.                                           *)
(*                                                                         *)
(* A Go string is modelled as a sequence of bytes; a byte is written as a  *)
(* one-character TLA+ string ("a", " ", "(").  Positions are 0-based as in *)
(* the code, so the byte at position pos of input is input[pos + 1].       *)
(***************************************************************************)
EXTENDS Integers, Sequences, FiniteSets, TLC

VARIABLES query, pc, filter, jmap, calls, del, client, ret, tokenizer

vars == <<query, pc, filter, jmap, calls, del, client, ret, tokenizer>>

----------------------------------------------------------------------------
(* Bytes and the ASCII part of package strings / unicode.                  *)

LowerLetters ==
    <<"a","b","c","d","e","f","g","h","i","j","k","l","m",
      "n","o","p","q","r","s","t","u","v","w","x","y","z">>

UpperLetters ==
    <<"A","B","C","D","E","F","G","H","I","J","K","L","M",
      "N","O","P","Q","R","S","T","U","V","W","X","Y","Z">>

ToUpperChar(c) ==
    IF \E i \in 1..Len(LowerLetters) : LowerLetters[i] = c
    THEN UpperLetters[CHOOSE i \in 1..Len(LowerLetters) : LowerLetters[i] = c]
    ELSE c

ToLowerChar(c) ==
    IF \E i \in 1..Len(UpperLetters) : UpperLetters[i] = c
    THEN LowerLetters[CHOOSE i \in 1..Len(UpperLetters) : UpperLetters[i] = c]
    ELSE c

ToUpper(s) == [i \in 1..Len(s) |-> ToUpperChar(s[i])]

ToLower(s) == [i \in 1..Len(s) |-> ToLowerChar(s[i])]

(* unicode.IsSpace(rune(b)) for a single byte b: the Latin-1 white space.  *)
IsSpace(c) == c \in {" ", "\t", "\n", "\f", "\r", "0x0B", "0x85", "0xA0"}

(* strings.TrimSpace works on characters, not bytes: it removes the ASCII  *)
(* white space and the white-space characters encoded in several bytes,    *)
(* here U+0085, U+00A0 and U+2003; a byte 0x85 or 0xA0 that is part of      *)
(* another character is not white space to it.                             *)
AsciiSpaces == {" ", "\t", "\n", "\f", "\r", "0x0B"}

WideSpaces ==
    { <<"0xC2", "0x85">>, <<"0xC2", "0xA0">>, <<"0xE2", "0x80", "0x83">> }

(* The length of the white-space character that starts at byte i of s,    *)
(* and of the one that ends at byte j without reaching below byte lo; 0    *)
(* when there is none.                                                     *)
LeadingSpace(s, i) ==
    IF i <= Len(s) /\ s[i] \in AsciiSpaces THEN 1
    ELSE IF \E r \in WideSpaces :
               i + Len(r) - 1 <= Len(s) /\ SubSeq(s, i, i + Len(r) - 1) = r
         THEN Len(CHOOSE r \in WideSpaces :
                     i + Len(r) - 1 <= Len(s)
                        /\ SubSeq(s, i, i + Len(r) - 1) = r)
         ELSE 0

TrailingSpace(s, lo, j) ==
    IF j >= lo /\ s[j] \in AsciiSpaces THEN 1
    ELSE IF \E r \in WideSpaces :
               j - Len(r) + 1 >= lo /\ SubSeq(s, j - Len(r) + 1, j) = r
         THEN Len(CHOOSE r \in WideSpaces :
                     j - Len(r) + 1 >= lo
                        /\ SubSeq(s, j - Len(r) + 1, j) = r)
         ELSE 0

(* The first byte that is left when the leading white space is removed     *)
(* from byte i on, and the last one that is left when the trailing white   *)
(* space is removed from bytes lo..j.                                      *)
RECURSIVE TrimLeft(_, _)
TrimLeft(s, i) ==
    IF LeadingSpace(s, i) > 0 THEN TrimLeft(s, i + LeadingSpace(s, i)) ELSE i

RECURSIVE TrimRight(_, _, _)
TrimRight(s, lo, j) ==
    IF TrailingSpace(s, lo, j) > 0
    THEN TrimRight(s, lo, j - TrailingSpace(s, lo, j))
    ELSE j

TrimSpace(s) ==
    SubSeq(s, TrimLeft(s, 1), TrimRight(s, TrimLeft(s, 1), Len(s)))

(* strings.ReplaceAll(s, old, new): non-overlapping, left to right.        *)
RECURSIVE ReplaceAll(_, _, _)
ReplaceAll(s, old, new) ==
    IF Len(s) < Len(old) THEN s
    ELSE IF SubSeq(s, 1, Len(old)) = old
         THEN new \o ReplaceAll(SubSeq(s, Len(old) + 1, Len(s)), old, new)
         ELSE <<s[1]>> \o ReplaceAll(Tail(s), old, new)

(* Mutant of IndexColon: the last colon instead of the first.              *)
IndexColon_Last(s) ==
    IF \E i \in 1..Len(s) : s[i] = ":"
    THEN (CHOOSE i \in 1..Len(s) :
              s[i] = ":" /\ \A j \in (i + 1)..Len(s) : s[j] # ":") - 1
    ELSE -1

(* strings.Index(s, ":"), 0-based; -1 when there is no colon.              *)
IndexColon(s) ==
    IF \E i \in 1..Len(s) : s[i] = ":"
    THEN (CHOOSE i \in 1..Len(s) :
              s[i] = ":" /\ \A j \in 1..(i - 1) : s[j] # ":") - 1
    ELSE -1

----------------------------------------------------------------------------
(* Filter values.                                                          *)

nil == [typ |-> "nil"]

TextFilter(field, value) ==
    [typ |-> "TextFilter", Field |-> field, Value |-> value]

BoolFilter(operator, conditions) ==
    [typ |-> "BoolFilter", Operator |-> operator, Conditions |-> conditions]

HasAttachmentFilter(value) ==
    [typ |-> "HasAttachmentFilter", Value |-> value]

RECURSIVE ToJMAP(_)

(* Mutant of ToJMAP: the conditions are rendered in reverse order.         *)
ToJMAP_Reversed(f) ==
    CASE f.typ = "TextFilter" -> (f.Field :> f.Value)
      [] f.typ = "BoolFilter" ->
            [operator   |-> f.Operator,
             conditions |-> [i \in 1..Len(f.Conditions) |->
                                ToJMAP(f.Conditions[Len(f.Conditions) + 1 - i])]]
      [] f.typ = "HasAttachmentFilter" -> [hasAttachment |-> f.Value]

ToJMAP(f) ==
    CASE f.typ = "TextFilter" -> (f.Field :> f.Value)
      [] f.typ = "BoolFilter" ->
            [operator   |-> f.Operator,
             conditions |-> [i \in 1..Len(f.Conditions) |->
                                ToJMAP(f.Conditions[i])]]
      [] f.typ = "HasAttachmentFilter" -> [hasAttachment |-> f.Value]

----------------------------------------------------------------------------
(* Tokenizer.  A function that reads returns what it read and the position *)
(* it leaves the cursor at.                                                *)

tokenWord   == "tokenWord"
tokenAND    == "tokenAND"
tokenOR     == "tokenOR"
tokenNOT    == "tokenNOT"
tokenLParen == "tokenLParen"
tokenRParen == "tokenRParen"
tokenEOF    == "tokenEOF"

token(typ, value) == [typ |-> typ, value |-> value]

peek(input, pos) == IF pos >= Len(input) THEN "0x00" ELSE input[pos + 1]

RECURSIVE skipWhitespace(_, _)
skipWhitespace(input, pos) ==
    IF pos < Len(input) /\ IsSpace(input[pos + 1])
    THEN skipWhitespace(input, pos + 1)
    ELSE pos

(* The scanning loop of readQuoted: the position where it stops.           *)
RECURSIVE scanQuoted(_, _, _)
scanQuoted(input, pos, quote) ==
    IF pos < Len(input) /\ input[pos + 1] # quote
    THEN IF input[pos + 1] = "\\" /\ pos + 1 < Len(input)
         THEN scanQuoted(input, pos + 2, quote)
         ELSE scanQuoted(input, pos + 1, quote)
    ELSE pos

(* "Remove escape characters".                                             *)
unescape(value) ==
    ReplaceAll(ReplaceAll(value, <<"\\", "\"">>, <<"\"">>),
               <<"\\", "'">>, <<"'">>)

(* Mutant of quotedValue: a span that is never closed yields no phrase.    *)
quotedValue_DropUnterminated(input, start, stop) ==
    [value |-> IF stop < Len(input)
               THEN unescape(SubSeq(input, start + 1, stop))
               ELSE <<>>,
     pos   |-> IF stop < Len(input) THEN stop + 1 ELSE stop]

(* A variant of quotedValue that skips a closing quote without looking for *)
(* one.                                                                    *)
quotedValue_SkipAlways(input, start, stop) ==
    [value |-> unescape(SubSeq(input, start + 1, stop)), pos |-> stop + 1]

(* The end of readQuoted, the loop having stopped at stop.                 *)
quotedValue(input, start, stop) ==
    [value |-> unescape(SubSeq(input, start + 1, stop)),
     pos   |-> IF stop < Len(input) THEN stop + 1 ELSE stop]

readQuoted(input, pos) ==
    quotedValue(input, pos + 1, scanQuoted(input, pos + 1, peek(input, pos)))

(* "Handle colon followed by quoted string": field + ":" + quoted.         *)
fieldQuoted(input, start, pos, quoted) ==
    [value |-> SubSeq(input, start + 1, pos) \o <<":">> \o quoted.value,
     pos   |-> quoted.pos]

RECURSIVE readWordFrom(_, _, _)

(* Mutant of readWordFrom: only white space ends a bare word.              *)
readWordFrom_SpaceOnly(input, start, pos) ==
    IF pos >= Len(input)
    THEN [value |-> SubSeq(input, start + 1, pos), pos |-> pos]
    ELSE LET c == input[pos + 1] IN
         IF IsSpace(c)
         THEN [value |-> SubSeq(input, start + 1, pos), pos |-> pos]
         ELSE IF c = ":" /\ pos + 1 < Len(input)
                 /\ (input[pos + 2] = "\"" \/ input[pos + 2] = "'")
              THEN fieldQuoted(input, start, pos, readQuoted(input, pos + 1))
              ELSE readWordFrom(input, start, pos + 1)

readWordFrom(input, start, pos) ==
    IF pos >= Len(input)
    THEN [value |-> SubSeq(input, start + 1, pos), pos |-> pos]
    ELSE LET c == input[pos + 1] IN
         IF IsSpace(c) \/ c = "(" \/ c = ")"
         THEN [value |-> SubSeq(input, start + 1, pos), pos |-> pos]
         ELSE IF c = ":" /\ pos + 1 < Len(input)
                 /\ (input[pos + 2] = "\"" \/ input[pos + 2] = "'")
              THEN fieldQuoted(input, start, pos, readQuoted(input, pos + 1))
              ELSE readWordFrom(input, start, pos + 1)

readWord(input, pos) == readWordFrom(input, pos, pos)

(* The keyword switch at the end of nextToken.                             *)
keyword(word, upper) ==
    CASE upper = <<"A", "N", "D">> -> token(tokenAND, word)
      [] upper = <<"O", "R">>      -> token(tokenOR, word)
      [] upper = <<"N", "O", "T">> -> token(tokenNOT, word)
      [] OTHER                     -> token(tokenWord, word)

(* Mutant of classify: the keyword is compared without upper-casing.      *)
classify_CaseSensitive(word) == keyword(word, word)

classify(word) == keyword(word, ToUpper(word))

wordToken(w) == [tok |-> classify(w.value), pos |-> w.pos]

(* Mutant of quotedToken: a quoted phrase goes through the keyword switch. *)
quotedToken_Classified(q) == wordToken(q)

quotedToken(q) == [tok |-> token(tokenWord, q.value), pos |-> q.pos]

(* nextToken once the white space is skipped and the cursor is at p.       *)
tokenAt(input, p) ==
    IF p >= Len(input)
    THEN [tok |-> token(tokenEOF, <<>>), pos |-> p]
    ELSE LET c == peek(input, p) IN
         CASE c = "(" -> [tok |-> token(tokenLParen, <<"(">>), pos |-> p + 1]
           [] c = ")" -> [tok |-> token(tokenRParen, <<")">>), pos |-> p + 1]
           [] c = "\"" \/ c = "'" -> quotedToken(readQuoted(input, p))
           [] OTHER -> wordToken(readWord(input, p))

nextToken(input, pos) == tokenAt(input, skipWhitespace(input, pos))

----------------------------------------------------------------------------
(* Term interpreter.                                                       *)

parseFieldValue(term) ==
    LET colonIdx == IndexColon(term)
        field    == ToLower(SubSeq(term, 1, colonIdx))
        value    == SubSeq(term, colonIdx + 2, Len(term))
        lvalue   == ToLower(value)
        text     == TextFilter("text", term)
    IN
    IF colonIdx > 0
    THEN CASE field = <<"f","r","o","m">> -> TextFilter("from", value)
           [] field = <<"t","o">> -> TextFilter("to", value)
           [] field = <<"c","c">> -> TextFilter("cc", value)
           [] field = <<"b","c","c">> -> TextFilter("bcc", value)
           [] field = <<"s","u","b","j","e","c","t">> ->
                TextFilter("subject", value)
           [] field = <<"b","o","d","y">> -> TextFilter("body", value)
           [] field = <<"h","a","s">> ->
                IF lvalue = <<"a","t","t","a","c","h","m","e","n","t">>
                THEN HasAttachmentFilter(TRUE)
                ELSE text
           [] field = <<"i","s">> ->
                CASE lvalue = <<"u","n","r","e","a","d">> ->
                        TextFilter("notKeyword", <<"$","s","e","e","n">>)
                  [] lvalue = <<"r","e","a","d">> ->
                        TextFilter("hasKeyword", <<"$","s","e","e","n">>)
                  [] lvalue = <<"f","l","a","g","g","e","d">>
                     \/ lvalue = <<"s","t","a","r","r","e","d">> ->
                        TextFilter("hasKeyword",
                                   <<"$","f","l","a","g","g","e","d">>)
                  [] lvalue = <<"u","n","f","l","a","g","g","e","d">>
                     \/ lvalue = <<"u","n","s","t","a","r","r","e","d">> ->
                        TextFilter("notKeyword",
                                   <<"$","f","l","a","g","g","e","d">>)
                  [] lvalue = <<"d","r","a","f","t">> ->
                        TextFilter("hasKeyword", <<"$","d","r","a","f","t">>)
                  [] lvalue = <<"a","n","s","w","e","r","e","d">> ->
                        TextFilter("hasKeyword",
                                   <<"$","a","n","s","w","e","r","e","d">>)
                  [] OTHER -> text
           [] field = <<"i","n">>
              \/ field = <<"f","o","l","d","e","r">>
              \/ field = <<"m","a","i","l","b","o","x">> ->
                TextFilter("inMailbox", value)
           [] field = <<"b","e","f","o","r","e">> ->
                TextFilter("before", value)
           [] field = <<"a","f","t","e","r">> -> TextFilter("after", value)
           [] OTHER -> text
    ELSE text

----------------------------------------------------------------------------
(* Parser.  A parser value is [pos, current]: the tokenizer's cursor and   *)
(* the current token.  A parse function returns [f, p]: the filter (or     *)
(* nil) and the parser value it leaves behind.                             *)

parserAt(n) == [pos |-> n.pos, current |-> n.tok]

advance(input, p) == parserAt(nextToken(input, p.pos))

newParser(input) ==
    advance(input, [pos |-> 0, current |-> token(tokenEOF, <<>>)])

(* Mutant of parseTerm: a term that falls back to free text loses its      *)
(* prefix and colon.                                                       *)
parseTerm_FallbackValue(input, p) ==
    IF p.current.typ # tokenWord
    THEN [f |-> nil, p |-> p]
    ELSE [f |-> IF parseFieldValue(p.current.value)
                      = TextFilter("text", p.current.value)
                THEN TextFilter("text",
                        SubSeq(p.current.value,
                               IndexColon(p.current.value) + 2,
                               Len(p.current.value)))
                ELSE parseFieldValue(p.current.value),
          p |-> advance(input, p)]

parseTerm(input, p) ==
    IF p.current.typ # tokenWord
    THEN [f |-> nil, p |-> p]
    ELSE [f |-> parseFieldValue(p.current.value), p |-> advance(input, p)]

RECURSIVE parseOrExpr(_, _)
RECURSIVE parseOrLoop(_, _, _)
RECURSIVE orNext(_, _, _)
RECURSIVE orFirst(_, _)
RECURSIVE parseAndExpr(_, _)
RECURSIVE parseAndLoop(_, _, _)
RECURSIVE andNext(_, _, _)
RECURSIVE andFirst(_, _)
RECURSIVE parseNotExpr(_, _)
RECURSIVE parsePrimary(_, _)

(* Mutant of closeGroup: the closing parenthesis is not consumed.          *)
closeGroup_NoClose(input, expr) == expr

(* Mutant of closeGroup: a group is kept as a node of its own.             *)
closeGroup_Tagged(input, expr) ==
    [f |-> IF expr.f = nil THEN nil ELSE BoolFilter("AND", <<expr.f>>),
     p |-> IF expr.p.current.typ = tokenRParen
           THEN advance(input, expr.p)
           ELSE expr.p]

(* Mutant of closeGroup: a group that is never closed yields nothing.      *)
closeGroup_Strict(input, expr) ==
    IF expr.p.current.typ = tokenRParen
    THEN [f |-> expr.f, p |-> advance(input, expr.p)]
    ELSE [f |-> nil, p |-> expr.p]

(* The end of parsePrimary's group branch, expr being what parseOrExpr     *)
(* returned.                                                               *)
closeGroup(input, expr) ==
    [f |-> expr.f,
     p |-> IF expr.p.current.typ = tokenRParen
           THEN advance(input, expr.p)
           ELSE expr.p]

parsePrimary(input, p) ==
    IF p.current.typ = tokenLParen
    THEN closeGroup(input, parseOrExpr(input, advance(input, p)))
    ELSE parseTerm(input, p)

(* Mutant of negate: the operand is not checked for nil.                   *)
negate_NoNilCheck(operand) ==
    [f |-> BoolFilter("NOT", <<operand.f>>), p |-> operand.p]

(* The end of parseNotExpr's NOT branch, operand being what the recursive  *)
(* call returned.                                                          *)
negate(operand) ==
    IF operand.f = nil
    THEN [f |-> nil, p |-> operand.p]
    ELSE [f |-> BoolFilter("NOT", <<operand.f>>), p |-> operand.p]

(* Mutant of parseNotExpr: NOT takes a whole conjunction as its operand.   *)
parseNotExpr_Loose(input, p) ==
    IF p.current.typ = tokenNOT
    THEN negate(parseAndExpr(input, advance(input, p)))
    ELSE parsePrimary(input, p)

parseNotExpr(input, p) ==
    IF p.current.typ = tokenNOT
    THEN negate(parseNotExpr(input, advance(input, p)))
    ELSE parsePrimary(input, p)

(* A variant of appendOperand that puts the new operand first.             *)
appendOperand_InFront(conditions, right) ==
    IF right # nil THEN <<right>> \o conditions ELSE conditions

(* "if right != nil { conditions = append(conditions, right) }".           *)
appendOperand(conditions, right) ==
    IF right # nil THEN Append(conditions, right) ELSE conditions

(* One turn of the for loop of parseAndExpr done, right being what         *)
(* parseNotExpr returned: "continue".                                      *)
andNext(input, conditions, right) ==
    parseAndLoop(input, right.p, appendOperand(conditions, right.f))

(* Mutant of parseAndLoop: a ")" is skipped and the loop goes on.          *)
parseAndLoop_SkipRParen(input, p, conditions) ==
    IF p.current.typ = tokenAND
    THEN andNext(input, conditions, parseNotExpr(input, advance(input, p)))
    ELSE IF p.current.typ = tokenWord \/ p.current.typ = tokenNOT
            \/ p.current.typ = tokenLParen
         THEN andNext(input, conditions, parseNotExpr(input, p))
         ELSE IF p.current.typ = tokenRParen
              THEN parseAndLoop(input, advance(input, p), conditions)
              ELSE [conditions |-> conditions, p |-> p]

(* Mutant of parseAndLoop: only the explicit AND continues the loop.       *)
parseAndLoop_ExplicitOnly(input, p, conditions) ==
    IF p.current.typ = tokenAND
    THEN andNext(input, conditions, parseNotExpr(input, advance(input, p)))
    ELSE [conditions |-> conditions, p |-> p]

(* The for loop of parseAndExpr, entered with the conditions so far.       *)
parseAndLoop(input, p, conditions) ==
    IF p.current.typ = tokenAND
    THEN andNext(input, conditions, parseNotExpr(input, advance(input, p)))
    ELSE IF p.current.typ = tokenWord \/ p.current.typ = tokenNOT
            \/ p.current.typ = tokenLParen
         THEN andNext(input, conditions, parseNotExpr(input, p))
         ELSE [conditions |-> conditions, p |-> p]

(* Mutant of andResult: a single operand is still wrapped in AND.          *)
andResult_NoCollapse(r) ==
    [f |-> BoolFilter("AND", r.conditions), p |-> r.p]

(* The end of parseAndExpr, r being what the loop left.                    *)
andResult(r) ==
    [f |-> IF Len(r.conditions) = 1
           THEN r.conditions[1]
           ELSE BoolFilter("AND", r.conditions),
     p |-> r.p]

(* parseAndExpr after its first operand, left being what parseNotExpr      *)
(* returned.                                                               *)
andFirst(input, left) ==
    IF left.f = nil
    THEN [f |-> nil, p |-> left.p]
    ELSE andResult(parseAndLoop(input, left.p, <<left.f>>))

parseAndExpr(input, p) == andFirst(input, parseNotExpr(input, p))

(* Mutant of orNext: each OR nests the operands seen so far.               *)
orNext_Pairwise(input, conditions, right) ==
    parseOrLoop(input, right.p,
                IF right.f = nil THEN conditions
                ELSE IF Len(conditions) = 1
                     THEN Append(conditions, right.f)
                     ELSE <<BoolFilter("OR", conditions), right.f>>)

(* One turn of the for loop of parseOrExpr done, right being what          *)
(* parseAndExpr returned.                                                  *)
orNext(input, conditions, right) ==
    parseOrLoop(input, right.p, appendOperand(conditions, right.f))

(* The for loop of parseOrExpr.                                            *)
parseOrLoop(input, p, conditions) ==
    IF p.current.typ = tokenOR
    THEN orNext(input, conditions, parseAndExpr(input, advance(input, p)))
    ELSE [conditions |-> conditions, p |-> p]

(* Mutant of orResult: a single operand is still wrapped in OR.            *)
orResult_NoCollapse(r) ==
    [f |-> BoolFilter("OR", r.conditions), p |-> r.p]

(* The end of parseOrExpr, r being what the loop left.                     *)
orResult(r) ==
    [f |-> IF Len(r.conditions) = 1
           THEN r.conditions[1]
           ELSE BoolFilter("OR", r.conditions),
     p |-> r.p]

(* parseOrExpr after its first operand, left being what parseAndExpr       *)
(* returned.                                                               *)
orFirst(input, left) ==
    IF left.f = nil
    THEN [f |-> nil, p |-> left.p]
    ELSE orResult(parseOrLoop(input, left.p, <<left.f>>))

parseOrExpr(input, p) == orFirst(input, parseAndExpr(input, p))

parse(input, p) ==
    IF p.current.typ = tokenEOF THEN nil ELSE parseOrExpr(input, p).f

(* ParseQuery after strings.TrimSpace.                                     *)
parseTrimmed(trimmed) ==
    IF trimmed = <<>> THEN nil ELSE parse(trimmed, newParser(trimmed))

ParseQuery(q) == parseTrimmed(TrimSpace(q))

----------------------------------------------------------------------------
(* The token stream of an input: the tokens successive nextToken calls     *)
(* return before tokenEOF, each with the cursor position it leaves.        *)

RECURSIVE Tokens(_, _)
RECURSIVE tokensFrom(_, _)
tokensFrom(input, n) ==
    IF n.tok.typ = tokenEOF
    THEN <<>>
    ELSE <<[typ |-> n.tok.typ, value |-> n.tok.value, stop |-> n.pos]>>
            \o Tokens(input, n.pos)

Tokens(input, pos) == tokensFrom(input, nextToken(input, pos))

----------------------------------------------------------------------------
(* Inputs.  A query is a concatenation of at most MaxPieces pieces, or one *)
(* of the queries of the package's tests.                                  *)

MaxPieces == 5

Pieces ==
    { <<"a", " ">>, <<"b", " ">>, <<"(">>, <<")">>,
      <<"O", "R", " ">>, <<"A", "N", "D", " ">>, <<"N", "O", "T", " ">> }

RECURSIVE Concats(_, _)
Concats(pieces, n) ==
    IF n = 0 THEN { <<>> }
    ELSE LET shorter == Concats(pieces, n - 1) IN
         shorter \cup { q \o piece : q \in shorter, piece \in pieces }

sp      == <<" ">>
kwOR    == <<"O", "R">>
kwAND   == <<"A", "N", "D">>
kwNOT   == <<"N", "O", "T">>
alice   == <<"a", "l", "i", "c", "e">>
bob     == <<"b", "o", "b">>
fromAlice == <<"f", "r", "o", "m", ":">> \o alice
toBob     == <<"t", "o", ":">> \o bob

Q_Hello       == <<"h", "e", "l", "l", "o">>
Q_Spaces      == <<" ", " ", " ">>
Q_ImplicitAnd == fromAlice \o sp \o toBob
Q_ExplicitAnd == fromAlice \o sp \o kwAND \o sp \o toBob
Q_Precedence  == <<"a">> \o sp \o kwOR \o sp \o <<"b">> \o sp \o kwAND \o sp
                    \o kwNOT \o sp \o <<"c">>
Q_Parentheses == <<"(", "a">> \o sp \o kwOR \o sp \o <<"b", ")">> \o sp
                    \o kwAND \o sp \o <<"c">>
Q_MultipleORs == <<"a">> \o sp \o kwOR \o sp \o <<"b">> \o sp \o kwOR \o sp
                    \o <<"c">>
Q_UpperOr     == <<"a", " ", "O", "R", " ", "b">>
Q_LowerOr     == <<"a", " ", "o", "r", " ", "b">>
Q_MixedOr     == <<"a", " ", "O", "r", " ", "b">>
Q_LowerAnd    == <<"a", " ", "a", "n", "d", " ", "b">>
Q_LowerNot    == <<"n", "o", "t", " ", "a">>
meeting == <<"m", "e", "e", "t", "i", "n", "g">>
subjectMeeting == <<"s", "u", "b", "j", "e", "c", "t", ":">> \o meeting
subjectCall    == <<"s", "u", "b", "j", "e", "c", "t", ":", "c", "a", "l", "l">>
fromBob        == <<"f", "r", "o", "m", ":">> \o bob
isUnread       == <<"i", "s", ":", "u", "n", "r", "e", "a", "d">>
Q_MixedOperators ==
    fromAlice \o sp \o kwOR \o sp \o <<"(">> \o subjectMeeting \o sp \o kwAND
        \o sp \o kwNOT \o sp \o isUnread \o <<")">>
Q_ComplexNested ==
    <<"(">> \o fromAlice \o sp \o kwOR \o sp \o fromBob \o <<")">> \o sp
        \o kwAND \o sp \o <<"(">> \o subjectMeeting \o sp \o kwOR \o sp
        \o subjectCall \o <<")">> \o sp \o kwAND \o sp \o kwNOT \o sp
        \o isUnread
Q_Grouped     == <<"(", "a", ")">>
Q_Grouped2    == <<"(", "(", "a", ")", ")">>

TestQueries ==
    { Q_Hello, Q_Spaces, Q_ImplicitAnd, Q_ExplicitAnd, Q_Precedence,
      Q_Parentheses, Q_MultipleORs, Q_UpperOr, Q_LowerOr, Q_MixedOr,
      Q_LowerAnd, Q_LowerNot, Q_Grouped, Q_Grouped2, Q_MixedOperators,
      Q_ComplexNested }

Queries == Concats(Pieces, MaxPieces) \cup TestQueries

----------------------------------------------------------------------------
(* The state machine: a caller holds a query string, calls ParseQuery and, *)
(* when the result is not nil, renders it with ToJMAP.                     *)

Init ==
    /\ query \in Queries
    /\ pc = "start"
    /\ filter = nil
    /\ jmap = nil
    /\ calls = <<>>
    /\ del = nil
    /\ client = nil
    /\ ret = nil
    /\ tokenizer = nil

CallParseQuery ==
    /\ pc = "start"
    /\ filter' = ParseQuery(query)
    /\ pc' = "parsed"
    /\ UNCHANGED <<query, jmap, calls, del, client, ret, tokenizer>>

CallToJMAP ==
    /\ pc = "parsed"
    /\ filter # nil
    /\ jmap' = ToJMAP(filter)
    /\ pc' = "compiled"
    /\ UNCHANGED <<query, filter, calls, del, client, ret, tokenizer>>

Next == CallParseQuery \/ CallToJMAP

Spec == Init /\ [][Next]_vars

(* The same caller with queries that exercise the tokenizer: quotes of     *)
(* both kinds, a field prefix, a keyword, white space and parentheses,     *)
(* glued with nothing between them.                                        *)

MaxLexPieces == 5

LexPieces ==
    { <<"\"">>, <<"'">>, <<" ">>, <<"(">>, <<")">>, <<"a">>,
      <<"a", "n", "d">>, <<"t", "o", ":">> }

hello   == <<"h", "e", "l", "l", "o">>
subject == <<"s", "u", "b", "j", "e", "c", "t">>

Q_QuotedSubject == subject \o <<":", "\"">> \o hello \o <<" ", "w", "o", "r",
                       "l", "d", "\"">>
Q_QuotedFrom    == <<"f", "r", "o", "m", ":", "\"", "A", "l", "i", "c", "e", " ",
                     "S", "m", "i", "t", "h", "\"">>
Q_ExactPhrase   == <<"\"", "e", "x", "a", "c", "t", " ", "p", "h", "r", "a", "s",
                     "e", "\"">>
Q_SingleQuotes  == subject \o <<":", "'", "s", "i", "n", "g", "l", "e", " ",
                       "q", "u", "o", "t", "e", "s", "'">>
Q_QuotedAnd     == <<"a", " ", "\"", "a", "n", "d", "\"", " ", "b">>

Q_Touching      == <<"a", "(", "b", " ", "O", "R", " ", "c", ")", "d">>
Q_Spaced        == <<"a", " ", "(", " ", "b", " ", "O", "R", " ", "c", " ", ")",
                     " ", "d">>

LexTestQueries ==
    { Q_QuotedSubject, Q_QuotedFrom, Q_ExactPhrase, Q_SingleQuotes,
      Q_QuotedAnd, Q_Touching, Q_Spaced }

LexQueries == Concats(LexPieces, MaxLexPieces) \cup LexTestQueries

InitLex ==
    /\ query \in LexQueries
    /\ pc = "start"
    /\ filter = nil
    /\ jmap = nil
    /\ calls = <<>>
    /\ del = nil
    /\ client = nil
    /\ ret = nil
    /\ tokenizer = nil

SpecLex == InitLex /\ [][Next]_vars

----------------------------------------------------------------------------
(* Vocabulary of the properties.                                           *)

IsBlank(q) == \A i \in 1..Len(q) : IsSpace(q[i])

IsLeaf(f) == f.typ = "TextFilter" \/ f.typ = "HasAttachmentFilter"

IsBool(f, operator) == f.typ = "BoolFilter" /\ f.Operator = operator

Text(value) == TextFilter("text", value)

(* A tree as the data model wants it: NOT has one child, AND and OR have   *)
(* two or more, and no child is nil.                                       *)
RECURSIVE WellFormed(_)
WellFormed(f) ==
    CASE IsLeaf(f) -> TRUE
      [] f.typ = "BoolFilter" ->
            /\ f.Operator \in {"AND", "OR", "NOT"}
            /\ IF f.Operator = "NOT"
               THEN Len(f.Conditions) = 1
               ELSE Len(f.Conditions) >= 2
            /\ \A i \in 1..Len(f.Conditions) : WellFormed(f.Conditions[i])
      [] OTHER -> FALSE

(* The same for a wire object.                                             *)
RECURSIVE WireWellFormed(_)
WireWellFormed(w) ==
    IF "operator" \in DOMAIN w
    THEN /\ DOMAIN w = {"operator", "conditions"}
         /\ w.operator \in {"AND", "OR", "NOT"}
         /\ IF w.operator = "NOT"
            THEN Len(w.conditions) = 1
            ELSE Len(w.conditions) >= 2
         /\ \A i \in 1..Len(w.conditions) : WireWellFormed(w.conditions[i])
    ELSE Cardinality(DOMAIN w) = 1

(* The type of the first token that is neither NOT nor "(".                *)
LeadTyp(q) ==
    LET toks == Tokens(q, 0)
        idx  == { i \in 1..Len(toks) :
                    toks[i].typ \notin {tokenNOT, tokenLParen} }
    IN  IF idx = {} THEN tokenEOF
        ELSE toks[CHOOSE i \in idx : \A j \in idx : i <= j].typ

----------------------------------------------------------------------------
(* C1 as stated: ParseQuery returns nil for an empty or whitespace-only    *)
(* query and a well-formed tree, never nil, for every other query.         *)
C1_NilOnlyForBlank ==
    pc # "start" =>
        IF IsBlank(query) THEN filter = nil
        ELSE filter # nil /\ WellFormed(filter)

(* C1 as amended: ParseQuery returns nil for a blank query and, more       *)
(* generally, exactly when the first token other than NOT and "(" is not   *)
(* a Word (it is AND, OR, ")" or the end of input); every other query      *)
(* yields a well-formed tree.                                              *)
C1_NilIffNoLeadingOperand ==
    pc # "start" =>
        /\ IsBlank(query) => filter = nil
        /\ filter = nil <=> LeadTyp(query) # tokenWord
        /\ filter # nil => WellFormed(filter)

C1_Witness ==
    /\ pc = "parsed"
    /\ ~IsBlank(query)
    /\ LeadTyp(query) = tokenRParen
    /\ filter = nil

----------------------------------------------------------------------------
(* C2: in every tree ParseQuery returns each NOT node has exactly one      *)
(* child, each AND and OR node has at least two, and no child is nil; the  *)
(* wire object has no AND/OR group with fewer than two conditions.         *)
C2_NodeArity ==
    /\ pc # "start" /\ filter # nil => WellFormed(filter)
    /\ pc = "compiled" => WireWellFormed(jmap)

C2_Witness ==
    /\ pc = "compiled"
    /\ IsBool(filter, "OR")
    /\ \E i \in 1..Len(filter.Conditions) : IsBool(filter.Conditions[i], "AND")
    /\ \E i \in 1..Len(filter.Conditions) : IsBool(filter.Conditions[i], "NOT")

----------------------------------------------------------------------------
(* A reference reading of a query without parentheses in which every       *)
(* operator has its operands: the token stream is split at the OR tokens,  *)
(* each part is a run of units NOT* Word with an optional AND between two  *)
(* units, and a part or a whole of one element stands for that element.    *)

HasParen(q) == \E i \in 1..Len(q) : q[i] = "(" \/ q[i] = ")"

ValidFlat(toks) ==
    /\ Len(toks) > 0
    /\ toks[Len(toks)].typ = tokenWord
    /\ toks[1].typ \in {tokenWord, tokenNOT}
    /\ \A i \in 1..Len(toks) :
          /\ toks[i].typ \in {tokenWord, tokenNOT, tokenAND, tokenOR}
          /\ toks[i].typ \in {tokenAND, tokenOR} =>
                /\ i > 1 /\ toks[i - 1].typ = tokenWord
                /\ toks[i + 1].typ \in {tokenWord, tokenNOT}
          /\ toks[i].typ = tokenNOT =>
                toks[i + 1].typ \in {tokenWord, tokenNOT}

RECURSIVE Wrap(_, _)
Wrap(n, f) == IF n = 0 THEN f ELSE BoolFilter("NOT", <<Wrap(n - 1, f)>>)

Collapse(operator, conditions) ==
    IF Len(conditions) = 1 THEN conditions[1]
    ELSE BoolFilter(operator, conditions)

(* The units of toks[i..j], in order: each Word under the NOTs before it.  *)
RECURSIVE RefUnits(_, _, _, _)
RefUnits(toks, i, j, nots) ==
    IF i > j THEN <<>>
    ELSE CASE toks[i].typ = tokenNOT -> RefUnits(toks, i + 1, j, nots + 1)
           [] toks[i].typ \in {tokenAND, tokenOR} ->
                RefUnits(toks, i + 1, j, 0)
           [] OTHER ->
                <<Wrap(nots, parseFieldValue(toks[i].value))>>
                    \o RefUnits(toks, i + 1, j, 0)

(* The parts of toks[i..], one per OR-separated stretch.                   *)
RECURSIVE RefParts(_, _)
RefParts(toks, i) ==
    LET ors == { k \in i..Len(toks) : toks[k].typ = tokenOR }
        j   == IF ors = {} THEN Len(toks) + 1
               ELSE CHOOSE k \in ors : \A m \in ors : k <= m
    IN  <<Collapse("AND", RefUnits(toks, i, j - 1, 0))>>
            \o (IF ors = {} THEN <<>> ELSE RefParts(toks, j + 1))

RefParse(toks) == Collapse("OR", RefParts(toks, 1))

RECURSIVE IsNotChain(_)
IsNotChain(f) ==
    \/ IsLeaf(f)
    \/ IsBool(f, "NOT") /\ Len(f.Conditions) = 1 /\ IsNotChain(f.Conditions[1])

IsAndLevel(f) ==
    \/ IsNotChain(f)
    \/ IsBool(f, "AND")
          /\ \A i \in 1..Len(f.Conditions) : IsNotChain(f.Conditions[i])

IsOrLevel(f) ==
    \/ IsAndLevel(f)
    \/ IsBool(f, "OR")
          /\ \A i \in 1..Len(f.Conditions) : IsAndLevel(f.Conditions[i])

TypCount(toks, typ) == Cardinality({ i \in 1..Len(toks) : toks[i].typ = typ })

(* C3: NOT binds tighter than AND, AND tighter than OR.  For a query       *)
(* without parentheses an OR node is the root only, an AND node is the     *)
(* root or a child of the root OR, a NOT wraps a term or a NOT chain; when *)
(* every operator has its operands the tree is the reference reading; and  *)
(* "a OR b AND NOT c" is OR(a, AND(b, NOT(c))).                            *)
C3_Precedence ==
    pc # "start" =>
        /\ ~HasParen(query) /\ filter # nil => IsOrLevel(filter)
        /\ ~HasParen(query) /\ ValidFlat(Tokens(query, 0)) =>
                filter = RefParse(Tokens(query, 0))
        /\ query = Q_Precedence =>
                filter = BoolFilter("OR",
                            <<Text(<<"a">>),
                              BoolFilter("AND",
                                 <<Text(<<"b">>),
                                   BoolFilter("NOT", <<Text(<<"c">>)>>)>>)>>)

C3_Witness ==
    /\ pc = "parsed"
    /\ ~HasParen(query)
    /\ ValidFlat(Tokens(query, 0))
    /\ IsBool(filter, "OR")
    /\ Len(filter.Conditions) = 2
    /\ IsLeaf(filter.Conditions[1])
    /\ IsBool(filter.Conditions[2], "AND")
    /\ IsBool(filter.Conditions[2].Conditions[2], "NOT")

----------------------------------------------------------------------------
(* The query with " AND " written after its first k bytes.                 *)
InsertAnd(q, k) ==
    SubSeq(q, 1, k) \o <<" ", "A", "N", "D", " ">> \o SubSeq(q, k + 1, Len(q))

(* Two neighbouring tokens with no operator between two operands: the      *)
(* left one ends an operand, the right one starts one.                     *)
Adjacent(toks, i) ==
    /\ toks[i].typ \in {tokenWord, tokenRParen}
    /\ toks[i + 1].typ \in {tokenWord, tokenNOT, tokenLParen}

(* C4: wherever two operands are adjacent, writing AND between them does   *)
(* not change the result; "from:alice to:bob" and "from:alice AND to:bob"  *)
(* both compile to {operator: AND, conditions: [{from: alice}, {to: bob}]}.*)
C4_ImplicitAnd ==
    pc # "start" =>
        /\ LET toks == Tokens(query, 0) IN
           \A i \in 1..(Len(toks) - 1) :
              Adjacent(toks, i) =>
                 ParseQuery(InsertAnd(query, toks[i].stop)) = filter
        /\ query \in {Q_ImplicitAnd, Q_ExplicitAnd} =>
              /\ filter = BoolFilter("AND", <<TextFilter("from", alice),
                                              TextFilter("to", bob)>>)
              /\ pc = "compiled" =>
                    jmap = [operator   |-> "AND",
                            conditions |-> <<[from |-> alice], [to |-> bob]>>]

C4_Witness ==
    /\ pc = "compiled"
    /\ LET toks == Tokens(query, 0) IN
       /\ Len(toks) = 5
       /\ Adjacent(toks, 3)
       /\ toks[3].typ = tokenRParen
       /\ toks[4].typ = tokenNOT
    /\ IsBool(filter, "AND")
    /\ Len(filter.Conditions) = 2

----------------------------------------------------------------------------
(* C5: n >= 2 operands joined by OR yield one OR node with exactly n       *)
(* conditions in source order; n operands joined by explicit or implicit   *)
(* AND yield one AND node with exactly n conditions in source order.  An   *)
(* operand here is a term under any number of NOTs.                        *)
C5_FlatChains ==
    pc # "start" =>
        LET toks == Tokens(query, 0)
            n    == TypCount(toks, tokenWord)
        IN
        /\ /\ ~HasParen(query) /\ ValidFlat(toks) /\ n >= 2
           /\ TypCount(toks, tokenAND) = 0
           /\ TypCount(toks, tokenOR) = n - 1
           => /\ IsBool(filter, "OR")
              /\ Len(filter.Conditions) = n
              /\ filter.Conditions = RefUnits(toks, 1, Len(toks), 0)
              /\ \A i \in 1..n : IsNotChain(filter.Conditions[i])
        /\ /\ ~HasParen(query) /\ ValidFlat(toks) /\ n >= 2
           /\ TypCount(toks, tokenOR) = 0
           => /\ IsBool(filter, "AND")
              /\ Len(filter.Conditions) = n
              /\ filter.Conditions = RefUnits(toks, 1, Len(toks), 0)
              /\ \A i \in 1..n : IsNotChain(filter.Conditions[i])
        /\ query = Q_MultipleORs =>
              filter = BoolFilter("OR", <<Text(<<"a">>), Text(<<"b">>),
                                          Text(<<"c">>)>>)
        /\ query = Q_ComplexNested =>
              filter = BoolFilter("AND",
                  <<BoolFilter("OR", <<TextFilter("from", alice),
                                       TextFilter("from", bob)>>),
                    BoolFilter("OR",
                       <<TextFilter("subject", meeting),
                         TextFilter("subject", <<"c", "a", "l", "l">>)>>),
                    BoolFilter("NOT",
                       <<TextFilter("notKeyword",
                                    <<"$", "s", "e", "e", "n">>)>>)>>)

C5_Witness ==
    /\ pc = "parsed"
    /\ ~HasParen(query)
    /\ ValidFlat(Tokens(query, 0))
    /\ TypCount(Tokens(query, 0), tokenOR) = 2
    /\ IsBool(filter, "OR")
    /\ Len(filter.Conditions) = 3

----------------------------------------------------------------------------
(* Parentheses by counting, for queries without quotes: the position of    *)
(* the ")" that closes a group whose inside starts at j, 0 when there is   *)
(* none.                                                                   *)
RECURSIVE MatchFrom(_, _, _)
MatchFrom(q, j, depth) ==
    IF j > Len(q) THEN 0
    ELSE CASE q[j] = "(" -> MatchFrom(q, j + 1, depth + 1)
           [] q[j] = ")" -> IF depth = 0 THEN j
                            ELSE MatchFrom(q, j + 1, depth - 1)
           [] OTHER -> MatchFrom(q, j + 1, depth)

RECURSIVE DepthOK(_, _, _)
DepthOK(q, j, depth) ==
    IF j > Len(q) THEN depth = 0
    ELSE CASE q[j] = "(" -> DepthOK(q, j + 1, depth + 1)
           [] q[j] = ")" -> depth > 0 /\ DepthOK(q, j + 1, depth - 1)
           [] OTHER -> DepthOK(q, j + 1, depth)

Balanced(q) == DepthOK(q, 1, 0)

HasQuote(q) == \E i \in 1..Len(q) : q[i] = "\"" \/ q[i] = "'"

(* The parser reads q to the end of input: it does not stop at an operator *)
(* that has no operand or at an unmatched ")".                             *)
ConsumesAll(q) ==
    parseOrExpr(TrimSpace(q), newParser(TrimSpace(q))).p.current.typ = tokenEOF

TypVal(toks) == [i \in 1..Len(toks) |-> token(toks[i].typ, toks[i].value)]

(* What stands beside a group: one term, with AND, OR or nothing between.  *)
Beside(toks, side) ==
    CASE Len(toks) = 1 /\ toks[1].typ = tokenWord ->
            [operator |-> "AND", word |-> toks[1].value]
      [] Len(toks) = 2 /\ side = "right" /\ toks[2].typ = tokenWord
            /\ toks[1].typ \in {tokenAND, tokenOR} ->
            [operator |-> IF toks[1].typ = tokenAND THEN "AND" ELSE "OR",
             word |-> toks[2].value]
      [] Len(toks) = 2 /\ side = "left" /\ toks[1].typ = tokenWord
            /\ toks[2].typ \in {tokenAND, tokenOR} ->
            [operator |-> IF toks[2].typ = tokenAND THEN "AND" ELSE "OR",
             word |-> toks[1].value]
      [] OTHER -> [operator |-> "none", word |-> <<>>]

(* C6: a parenthesised sub-expression is one operand of the enclosing      *)
(* operator and keeps its own structure: for a group "(" X ")" with a term *)
(* on one side, joined by AND, OR or adjacency, the result is that         *)
(* operator over the tree of X and the term, whatever node the tree of X   *)
(* is; "(a OR b) AND c" is AND(OR(a, b), c).                               *)
C6_GroupIsOneOperand ==
    pc # "start" /\ ~HasQuote(query) =>
        /\ \A i \in 1..Len(query) :
              LET j      == IF query[i] = "(" THEN MatchFrom(query, i + 1, 0)
                            ELSE 0
                  before == Tokens(SubSeq(query, 1, i - 1), 0)
                  inside == SubSeq(query, i + 1, j - 1)
                  after  == Tokens(SubSeq(query, j + 1, Len(query)), 0)
                  left   == Beside(before, "left")
                  right  == Beside(after, "right")
              IN  j > 0 /\ ConsumesAll(inside) /\ ParseQuery(inside) # nil =>
                    /\ before = <<>> /\ right.operator # "none" =>
                          filter = BoolFilter(right.operator,
                                      <<ParseQuery(inside),
                                        parseFieldValue(right.word)>>)
                    /\ after = <<>> /\ left.operator # "none" =>
                          filter = BoolFilter(left.operator,
                                      <<parseFieldValue(left.word),
                                        ParseQuery(inside)>>)
        /\ query = Q_Parentheses =>
              filter = BoolFilter("AND",
                          <<BoolFilter("OR", <<Text(<<"a">>), Text(<<"b">>)>>),
                            Text(<<"c">>)>>)
        /\ query = Q_MixedOperators =>
              filter = BoolFilter("OR",
                          <<TextFilter("from", alice),
                            BoolFilter("AND",
                               <<TextFilter("subject", meeting),
                                 BoolFilter("NOT",
                                    <<TextFilter("notKeyword",
                                         <<"$", "s", "e", "e", "n">>)>>)>>)>>)

C6_Witness ==
    /\ pc = "parsed"
    /\ Len(query) > 0
    /\ query[1] = "("
    /\ MatchFrom(query, 2, 0) > 0
    /\ Beside(Tokens(SubSeq(query, MatchFrom(query, 2, 0) + 1, Len(query)), 0),
              "right").operator = "AND"
    /\ IsBool(filter, "AND")
    /\ Len(filter.Conditions) = 2
    /\ IsBool(filter.Conditions[1], "AND")

----------------------------------------------------------------------------
Group(q) == <<"(">> \o q \o <<")">>

(* C7 as stated: for every query q with balanced parentheses (and          *)
(* terminated quotes) "(" q ")" parses to the tree of q.                   *)
C7_GroupingAnyBalanced ==
    pc # "start" /\ ~HasQuote(query) /\ Balanced(query) =>
        ParseQuery(Group(query)) = filter

(* C7 as amended: the same for every such q that the parser reads to the   *)
(* end of input; "(a)" and "((a))" yield the predicate of "a".             *)
C7_GroupingOfConsumed ==
    pc # "start" =>
        /\ ~HasQuote(query) /\ Balanced(query) /\ ConsumesAll(query) =>
              ParseQuery(Group(query)) = filter
        /\ query \in {Q_Grouped, Q_Grouped2} => filter = Text(<<"a">>)

C7_Witness ==
    /\ pc = "parsed"
    /\ HasParen(query)
    /\ Balanced(query)
    /\ ConsumesAll(query)
    /\ IsBool(filter, "OR")
    /\ ParseQuery(Group(Group(query))) = filter

----------------------------------------------------------------------------
OneTerm(toks) ==
    /\ TypCount(toks, tokenWord) = 1
    /\ TypCount(toks, tokenAND) = 0
    /\ TypCount(toks, tokenOR) = 0
    /\ TypCount(toks, tokenNOT) = 0

TheTerm(toks) == CHOOSE i \in 1..Len(toks) : toks[i].typ = tokenWord

(* C8 as stated: an input with exactly one term and no operator tokens     *)
(* yields that term's single predicate, a one-key wire object.             *)
C8_OneTermOnePredicate ==
    pc # "start" /\ OneTerm(Tokens(query, 0)) =>
        /\ IsLeaf(filter)
        /\ pc = "compiled" => Cardinality(DOMAIN jmap) = 1

(* C8 as amended: such an input never yields an AND, OR or NOT node; it    *)
(* yields the term's single predicate (a one-key wire object) unless a     *)
(* ")" precedes the term, and then it yields nil.                          *)
C8_OneTermNeverWrapped ==
    pc # "start" /\ OneTerm(Tokens(query, 0)) =>
        LET toks == Tokens(query, 0)
            k    == TheTerm(toks)
        IN  /\ filter.typ # "BoolFilter"
            /\ filter = IF \E i \in 1..(k - 1) : toks[i].typ = tokenRParen
                        THEN nil
                        ELSE parseFieldValue(toks[k].value)
            /\ pc = "compiled" =>
                  /\ Cardinality(DOMAIN jmap) = 1
                  /\ "operator" \notin DOMAIN jmap

C8_Witness ==
    /\ pc = "compiled"
    /\ OneTerm(Tokens(query, 0))
    /\ Len(Tokens(query, 0)) > 2
    /\ jmap = [text |-> <<"a">>]

----------------------------------------------------------------------------
IsDelim(c) == IsSpace(c) \/ c = "(" \/ c = ")"

(* The bare word around position i of a query without quotes.              *)
WordAround(q, i) ==
    LET first == CHOOSE s \in 1..i :
                    /\ \A m \in s..i : ~IsDelim(q[m])
                    /\ s = 1 \/ IsDelim(q[s - 1])
        last  == CHOOSE e \in i..Len(q) :
                    /\ \A m \in i..e : ~IsDelim(q[m])
                    /\ e = Len(q) \/ IsDelim(q[e + 1])
    IN  SubSeq(q, first, last)

InKeyword(q, i) ==
    /\ ~IsDelim(q[i])
    /\ ToUpper(WordAround(q, i)) \in {kwAND, kwOR, kwNOT}

SwapCase(c) == IF ToUpperChar(c) = c THEN ToLowerChar(c) ELSE ToUpperChar(c)

FlipAt(q, i) == [q EXCEPT ![i] = SwapCase(q[i])]

LowerKeywords(q) ==
    [i \in 1..Len(q) |-> IF InKeyword(q, i) THEN ToLowerChar(q[i]) ELSE q[i]]

RECURSIVE OperatorsUpper(_)
OperatorsUpper(w) ==
    "operator" \in DOMAIN w =>
        /\ w.operator \in {"AND", "OR", "NOT"}
        /\ \A i \in 1..Len(w.conditions) : OperatorsUpper(w.conditions[i])

(* C9: changing the letter case of an unquoted bare word and/or/not does   *)
(* not change the result (one letter at a time, or all keywords in lower   *)
(* case), and the operator on the wire is always AND, OR or NOT in upper   *)
(* case.                                                                   *)
C9_KeywordCase ==
    pc # "start" /\ ~HasQuote(query) =>
        /\ \A i \in 1..Len(query) :
              InKeyword(query, i) => ParseQuery(FlipAt(query, i)) = filter
        /\ ParseQuery(LowerKeywords(query)) = filter
        /\ query \in {Q_UpperOr, Q_LowerOr, Q_MixedOr} =>
              filter = BoolFilter("OR", <<Text(<<"a">>), Text(<<"b">>)>>)
        /\ query = Q_LowerAnd =>
              filter = BoolFilter("AND", <<Text(<<"a">>), Text(<<"b">>)>>)
        /\ query = Q_LowerNot => filter = BoolFilter("NOT", <<Text(<<"a">>)>>)
        /\ pc = "compiled" => OperatorsUpper(jmap)

C9_Witness ==
    /\ pc = "compiled"
    /\ query = Q_MixedOr
    /\ jmap = [operator   |-> "OR",
               conditions |-> <<[text |-> <<"a">>], [text |-> <<"b">>]>>]

----------------------------------------------------------------------------
IsQuote(c) == c = "\"" \/ c = "'"

(* The bare-word bytes at the end of s: what readWord has read when it     *)
(* gets to the byte after s.                                               *)
RECURSIVE WordTail(_)
WordTail(s) ==
    IF s = <<>> \/ IsDelim(s[Len(s)]) THEN <<>>
    ELSE Append(WordTail(SubSeq(s, 1, Len(s) - 1)), s[Len(s)])

(* query[i] opens a quoted span that query[j] closes: the same quote byte, *)
(* none of it and no backslash between them; no quote before i; and the    *)
(* quote stands where a token starts or right after the colon of a bare    *)
(* word.                                                                   *)
QuotedSpan(q, i, j) ==
    /\ i < j
    /\ IsQuote(q[i])
    /\ q[j] = q[i]
    /\ \A m \in (i + 1)..(j - 1) : q[m] # q[i] /\ q[m] # "\\"
    /\ \A m \in 1..(i - 1) : ~IsQuote(q[m])
    /\ i = 1 \/ IsDelim(q[i - 1]) \/ q[i - 1] = ":"

(* C10: the bytes between an opening quote and its closing quote are one   *)
(* Word token, taken literally: white space, parentheses and and/or/not    *)
(* inside neither split it nor become tokens of their own.  The tokens of  *)
(* the query are those of the text before the span, then one Word (the     *)
(* span's bytes, after the "field:" it is attached to, if any), then those *)
(* of the text after it.  subject:"hello world" is subject = hello world   *)
(* and a quoted "and" is a free-text term.  (Spans without backslash.)     *)
C10_QuotedSpanIsOneWord ==
    pc # "start" =>
        /\ \A i \in 1..Len(query) : \A j \in 1..Len(query) :
              QuotedSpan(query, i, j) =>
                 LET head == WordTail(SubSeq(query, 1, i - 1))
                     pre  == SubSeq(query, 1, i - 1 - Len(head))
                     body == SubSeq(query, i + 1, j - 1)
                     post == SubSeq(query, j + 1, Len(query))
                 IN  /\ TypVal(Tokens(query, 0)) =
                           TypVal(Tokens(pre, 0))
                              \o <<token(tokenWord, head \o body)>>
                              \o TypVal(Tokens(post, 0))
                     /\ IsBlank(pre) /\ IsBlank(post) =>
                           filter = parseFieldValue(head \o body)
                     /\ IsBlank(pre) /\ IsBlank(post) /\ head = <<>>
                           /\ ToUpper(body) \in {kwAND, kwOR, kwNOT} =>
                           filter = Text(body)
        /\ query = Q_QuotedSubject =>
              filter = TextFilter("subject", hello \o <<" ", "w", "o", "r",
                                                         "l", "d">>)
        /\ query = Q_SingleQuotes =>
              filter = TextFilter("subject", <<"s", "i", "n", "g", "l", "e",
                                    " ", "q", "u", "o", "t", "e", "s">>)
        /\ query = Q_ExactPhrase =>
              filter = Text(<<"e", "x", "a", "c", "t", " ", "p", "h", "r",
                              "a", "s", "e">>)
        /\ query = Q_QuotedAnd =>
              filter = BoolFilter("AND", <<Text(<<"a">>),
                                           Text(<<"a", "n", "d">>),
                                           Text(<<"b">>)>>)

C10_Witness ==
    /\ pc = "parsed"
    /\ QuotedSpan(query, 1, Len(query))
    /\ \E m \in 1..Len(query) : query[m] = " "
    /\ \E m \in 1..Len(query) : query[m] = "("
    /\ \E m \in 1..(Len(query) - 2) :
          SubSeq(query, m, m + 2) = <<"a", "n", "d">>
    /\ filter = Text(SubSeq(query, 2, Len(query) - 1))

----------------------------------------------------------------------------
(* The same caller with queries that exercise the escapes of readQuoted:   *)
(* quotes of both kinds, the backslash and a letter.                       *)

MaxEscPieces == 7

EscPieces == { <<"\"">>, <<"'">>, <<"\\">>, <<"a">> }

EscQueries == Concats(EscPieces, MaxEscPieces)

InitEsc ==
    /\ query \in EscQueries
    /\ pc = "start"
    /\ filter = nil
    /\ jmap = nil
    /\ calls = <<>>
    /\ del = nil
    /\ client = nil
    /\ ret = nil
    /\ tokenizer = nil

SpecEsc == InitEsc /\ [][Next]_vars

(* The phrase of a span opened at q[j - 1] when a backslash-escaped quote  *)
(* is any quote byte that follows a backslash.                             *)
RECURSIVE PhraseTextual(_, _, _)
PhraseTextual(q, j, quote) ==
    IF j > Len(q) THEN <<>>
    ELSE IF q[j] = "\\" /\ j < Len(q) /\ IsQuote(q[j + 1])
         THEN <<q[j + 1]>> \o PhraseTextual(q, j + 2, quote)
         ELSE IF q[j] = quote THEN <<>>
              ELSE <<q[j]>> \o PhraseTextual(q, j + 1, quote)

(* The same when a backslash escapes the byte after it, whatever it is, so *)
(* that the second of two backslashes escapes nothing.                     *)
RECURSIVE PhrasePaired(_, _, _)
PhrasePaired(q, j, quote) ==
    IF j > Len(q) THEN <<>>
    ELSE IF q[j] = "\\" /\ j < Len(q)
         THEN (IF IsQuote(q[j + 1]) THEN <<q[j + 1]>>
               ELSE <<q[j], q[j + 1]>>)
                 \o PhrasePaired(q, j + 2, quote)
         ELSE IF q[j] = quote THEN <<>>
              ELSE <<q[j]>> \o PhrasePaired(q, j + 1, quote)

(* C11: inside a quoted span each backslash-escaped quote does not end the *)
(* span and contributes the literal quote byte, and every other byte of    *)
(* the span, other backslashes included, is in the phrase unchanged: the   *)
(* phrase of a query that opens with a quote is the one this rule gives,   *)
(* under either reading of "backslash-escaped".                            *)
C11_EscapedQuotes ==
    pc # "start" /\ Len(query) > 0 /\ IsQuote(query[1]) =>
        LET input == TrimSpace(query) IN
        nextToken(input, 0).tok.value \in
            { PhraseTextual(input, 2, input[1]),
              PhrasePaired(input, 2, input[1]) }

----------------------------------------------------------------------------
(* input[i] opens a quoted span that nothing closes: no quote before i, no *)
(* byte equal to input[i] and no backslash after it, and the quote stands  *)
(* where a token starts or right after the colon of a bare word.           *)
Unterminated(input, i) ==
    /\ IsQuote(input[i])
    /\ \A m \in 1..(i - 1) : ~IsQuote(input[m])
    /\ i = 1 \/ IsDelim(input[i - 1]) \/ input[i - 1] = ":"
    /\ \A m \in (i + 1)..Len(input) : input[m] # input[i] /\ input[m] # "\\"

----------------------------------------------------------------------------
(* The number of "(" of a query without quotes that no ")" closes.         *)
Unclosed(q) ==
    Cardinality({ i \in 1..Len(q) : q[i] = "(" /\ MatchFrom(q, i + 1, 0) = 0 })

RECURSIVE Closers(_)
Closers(n) == IF n = 0 THEN <<>> ELSE <<")">> \o Closers(n - 1)

(* C13: a missing closing parenthesis is not an error: an open group that  *)
(* is never closed extends to the end of input, so a query with unclosed   *)
(* "(" yields the tree of the same query with the missing ")" appended at  *)
(* its end; "(a OR b" is OR(a, b) and "a (b OR a" is AND(a, OR(b, a)).     *)
C13_MissingCloseParen ==
    pc # "start" /\ ~HasQuote(query) /\ Unclosed(query) > 0 =>
        /\ filter = ParseQuery(query \o Closers(Unclosed(query)))
        /\ query = <<"(", "a", " ", "O", "R", " ", "b", " ">> =>
              filter = BoolFilter("OR", <<Text(<<"a">>), Text(<<"b">>)>>)
        /\ query = <<"a", " ", "(", "b", " ", "O", "R", " ", "a", " ">> =>
              filter = BoolFilter("AND",
                          <<Text(<<"a">>),
                            BoolFilter("OR", <<Text(<<"b">>), Text(<<"a">>)>>)>>)

C13_Witness ==
    /\ pc = "parsed"
    /\ Unclosed(query) = 2
    /\ Balanced(query \o Closers(2))
    /\ IsBool(filter, "OR")
    /\ Len(filter.Conditions) = 2
    /\ filter = ParseQuery(query \o Closers(2))

----------------------------------------------------------------------------
(* The position of the first ")" of a query without quotes that no "("     *)
(* before it opens a group for, 0 when there is none.                      *)
FirstUnmatched(q) == MatchFrom(q, 1, 0)

(* C14: an unmatched ")" outside any open group ends parsing without       *)
(* error: the result is the result of parsing the query truncated just     *)
(* before that ")", so no token after it contributes to the tree; "a ) b"  *)
(* is the single predicate a.                                              *)
C14_UnmatchedCloseParen ==
    pc # "start" /\ ~HasQuote(query) /\ FirstUnmatched(query) > 0 =>
        /\ filter = ParseQuery(SubSeq(query, 1, FirstUnmatched(query) - 1))
        /\ query = <<"a", " ", ")", "b", " ">> => filter = Text(<<"a">>)

C14_Witness ==
    /\ pc = "parsed"
    /\ FirstUnmatched(query) > 1
    /\ TypCount(Tokens(SubSeq(query, FirstUnmatched(query), Len(query)), 0),
                tokenWord) > 0
    /\ IsBool(filter, "OR")
    /\ filter = ParseQuery(SubSeq(query, 1, FirstUnmatched(query) - 1))

----------------------------------------------------------------------------
(* The same caller with one-term queries that exercise parseFieldValue:    *)
(* every field of its switch and some it does not know, every value of the *)
(* has: and is: switches and some they do not know, in lower, upper and    *)
(* capitalised spelling, and words without a colon.                        *)

wFrom == <<"f", "r", "o", "m">>
wTo == <<"t", "o">>
wCc == <<"c", "c">>
wBcc == <<"b", "c", "c">>
wSubject == <<"s", "u", "b", "j", "e", "c", "t">>
wBody == <<"b", "o", "d", "y">>
wIn == <<"i", "n">>
wFolder == <<"f", "o", "l", "d", "e", "r">>
wMailbox == <<"m", "a", "i", "l", "b", "o", "x">>
wBefore == <<"b", "e", "f", "o", "r", "e">>
wAfter == <<"a", "f", "t", "e", "r">>
wHas == <<"h", "a", "s">>
wIs == <<"i", "s">>
wAttachment == <<"a", "t", "t", "a", "c", "h", "m", "e", "n", "t">>
wUnread == <<"u", "n", "r", "e", "a", "d">>
wRead == <<"r", "e", "a", "d">>
wFlagged == <<"f", "l", "a", "g", "g", "e", "d">>
wStarred == <<"s", "t", "a", "r", "r", "e", "d">>
wUnflagged == <<"u", "n", "f", "l", "a", "g", "g", "e", "d">>
wUnstarred == <<"u", "n", "s", "t", "a", "r", "r", "e", "d">>
wDraft == <<"d", "r", "a", "f", "t">>
wAnswered == <<"a", "n", "s", "w", "e", "r", "e", "d">>

Capitalised(w) == IF w = <<>> THEN w ELSE <<ToUpperChar(w[1])>> \o Tail(w)

Spellings(words) ==
    words \cup { ToUpper(w) : w \in words }
          \cup { Capitalised(w) : w \in words }

KnownFields ==
    { wFrom, wTo, wCc, wBcc, wSubject, wBody, wIn, wFolder, wMailbox,
      wBefore, wAfter, wHas, wIs }

OtherFields == { <<>>, <<"x">>, <<"f", "r", "o">>, <<"i", "s", "s">> }

KnownValues ==
    { wAttachment, wUnread, wRead, wFlagged, wStarred, wUnflagged,
      wUnstarred, wDraft, wAnswered }

OtherValues ==
    { <<>>, alice, <<"a", ":", "b">>, <<":">>,
      <<"2", "0", "2", "4", "-", "0", "1", "-", "0", "1">>,
      <<"r", "e", "a", "d", "s">> }

PlainWords == { hello, wIs, wFrom, <<"x">> }

TermQueries ==
    { f \o <<":">> \o v :
         f \in Spellings(KnownFields) \cup OtherFields,
         v \in Spellings(KnownValues \cup OtherValues) }
      \cup Spellings(PlainWords)

InitTerm ==
    /\ query \in TermQueries
    /\ pc = "start"
    /\ filter = nil
    /\ jmap = nil
    /\ calls = <<>>
    /\ del = nil
    /\ client = nil
    /\ ret = nil
    /\ tokenizer = nil

SpecTerm == InitTerm /\ [][Next]_vars

----------------------------------------------------------------------------
(* The 1-based position of the first colon of a word, 0 when it has none.  *)
ColonAt(w) ==
    IF \E i \in 1..Len(w) : w[i] = ":"
    THEN CHOOSE i \in 1..Len(w) : w[i] = ":" /\ \A j \in 1..(i - 1) : w[j] # ":"
    ELSE 0

(* C15: a word field:value (its first colon not at the start; the field    *)
(* compared without regard to case; the value everything after the first   *)
(* colon) is interpreted by the table: from, to, cc, bcc, subject, body    *)
(* give {field: value}; in, folder, mailbox give {inMailbox: value};       *)
(* before and after give {before: value}, {after: value}; the value is     *)
(* passed verbatim; has:attachment gives {hasAttachment: true}; is:unread  *)
(* gives {notKeyword: $seen}, is:read {hasKeyword: $seen}, is:flagged and  *)
(* is:starred {hasKeyword: $flagged}, is:unflagged and is:unstarred        *)
(* {notKeyword: $flagged}, is:draft {hasKeyword: $draft}, is:answered      *)
(* {hasKeyword: $answered}, the value of has: and is: compared without     *)
(* regard to case.                                                         *)
C15_TermTable ==
    pc # "start" /\ ColonAt(query) > 1 =>
        LET c  == ColonAt(query)
            f  == ToLower(SubSeq(query, 1, c - 1))
            v  == SubSeq(query, c + 1, Len(query))
            lv == ToLower(v)
            Gives(key, val) ==
                /\ filter = TextFilter(key, val)
                /\ pc = "compiled" => jmap = (key :> val)
        IN
            /\ f = wFrom => Gives("from", v)
            /\ f = wTo => Gives("to", v)
            /\ f = wCc => Gives("cc", v)
            /\ f = wBcc => Gives("bcc", v)
            /\ f = wSubject => Gives("subject", v)
            /\ f = wBody => Gives("body", v)
            /\ f = wBefore => Gives("before", v)
            /\ f = wAfter => Gives("after", v)
            /\ f \in {wIn, wFolder, wMailbox} => Gives("inMailbox", v)
            /\ f = wHas /\ lv = wAttachment =>
                  /\ filter = HasAttachmentFilter(TRUE)
                  /\ pc = "compiled" => jmap = ("hasAttachment" :> TRUE)
            /\ f = wIs /\ lv \in {wUnread} =>
                  Gives("notKeyword", <<"$", "s", "e", "e", "n">>)
            /\ f = wIs /\ lv \in {wRead} =>
                  Gives("hasKeyword", <<"$", "s", "e", "e", "n">>)
            /\ f = wIs /\ lv \in {wFlagged, wStarred} =>
                  Gives("hasKeyword", <<"$", "f", "l", "a", "g", "g", "e", "d">>)
            /\ f = wIs /\ lv \in {wUnflagged, wUnstarred} =>
                  Gives("notKeyword", <<"$", "f", "l", "a", "g", "g", "e", "d">>)
            /\ f = wIs /\ lv \in {wDraft} =>
                  Gives("hasKeyword", <<"$", "d", "r", "a", "f", "t">>)
            /\ f = wIs /\ lv \in {wAnswered} =>
                  Gives("hasKeyword", <<"$", "a", "n", "s", "w", "e", "r", "e", "d">>)

C15_Witness ==
    /\ pc = "compiled"
    /\ ColonAt(query) > 1
    /\ SubSeq(query, 1, ColonAt(query) - 1) = Capitalised(wBefore)
    /\ \E i \in (ColonAt(query) + 1)..Len(query) : query[i] = ":"
    /\ \E i \in (ColonAt(query) + 1)..Len(query) : query[i] = "A"
    /\ jmap = ("before" :> SubSeq(query, ColonAt(query) + 1, Len(query)))

----------------------------------------------------------------------------
(* C16: term interpretation never fails: a word with no colon, with a      *)
(* leading colon, with a field name the table does not have, or with has:  *)
(* or is: followed by a value the table does not have is free text whose   *)
(* value is the entire word, prefix and colon included: {text: word}.      *)
C16_FallbackIsWholeWord ==
    pc # "start" =>
        LET c  == ColonAt(query)
            f  == ToLower(SubSeq(query, 1, c - 1))
            lv == ToLower(SubSeq(query, c + 1, Len(query)))
            FreeText ==
                /\ filter = TextFilter("text", query)
                /\ pc = "compiled" => jmap = ("text" :> query)
        IN  /\ filter # nil
            /\ c = 0 => FreeText
            /\ c = 1 => FreeText
            /\ c > 1 /\ f \notin KnownFields => FreeText
            /\ c > 1 /\ f = wHas /\ lv # wAttachment => FreeText
            /\ c > 1 /\ f = wIs
                  /\ lv \notin { wUnread, wRead, wFlagged, wStarred, wUnflagged,
                                 wUnstarred, wDraft, wAnswered } => FreeText

C16_Witness ==
    /\ pc = "compiled"
    /\ ColonAt(query) = 3
    /\ SubSeq(query, 1, 2) = ToUpper(wIs)
    /\ SubSeq(query, 4, Len(query)) = <<"r", "e", "a", "d", "s">>
    /\ jmap = ("text" :> query)

----------------------------------------------------------------------------
(* The same caller with queries that build trees over terms of every kind  *)
(* of predicate, one of them a word whose prefix is a key of the wire      *)
(* format.                                                                 *)

MaxWirePieces == 5

WirePieces ==
    { <<"f", "r", "o", "m", ":", "a", " ">>,
      wHas \o <<":">> \o wAttachment \o <<" ">>,
      <<"o", "p", "e", "r", "a", "t", "o", "r", ":", "x", " ">>,
      <<"O", "R", " ">>, <<"N", "O", "T", " ">>, <<"(">>, <<")">> }

hiring   == <<"h", "i", "r", "i", "n", "g">>
discount == <<"d", "i", "s", "c", "o", "u", "n", "t">>

Q_OROperator == hiring \o sp \o kwOR \o sp \o discount

WireQueries == Concats(WirePieces, MaxWirePieces) \cup { Q_OROperator }

InitWire ==
    /\ query \in WireQueries
    /\ pc = "start"
    /\ filter = nil
    /\ jmap = nil
    /\ calls = <<>>
    /\ del = nil
    /\ client = nil
    /\ ret = nil
    /\ tokenizer = nil

SpecWire == InitWire /\ [][Next]_vars

(* The keys a predicate's wire object may have.                            *)
WireKeys ==
    { "text", "from", "to", "cc", "bcc", "subject", "body", "hasAttachment",
      "hasKeyword", "notKeyword", "inMailbox", "before", "after" }

(* w is the wire object of the tree f, node for node.                      *)
RECURSIVE Renders(_, _)
Renders(f, w) ==
    CASE f.typ = "TextFilter" ->
            /\ DOMAIN w = {f.Field}
            /\ f.Field \in WireKeys
            /\ w[f.Field] = f.Value
      [] f.typ = "HasAttachmentFilter" ->
            /\ DOMAIN w = {"hasAttachment"}
            /\ w["hasAttachment"] = f.Value
      [] f.typ = "BoolFilter" ->
            /\ DOMAIN w = {"operator", "conditions"}
            /\ w["operator"] = f.Operator
            /\ Len(w["conditions"]) = Len(f.Conditions)
            /\ \A i \in 1..Len(f.Conditions) :
                  Renders(f.Conditions[i], w["conditions"][i])
      [] OTHER -> FALSE

(* C17: compiling a tree to its wire object is structural: a predicate     *)
(* becomes an object with exactly one key, one of the thirteen keys of the *)
(* format whatever the user wrote; a Boolean node becomes an object with   *)
(* exactly the keys operator and conditions, the conditions being the      *)
(* compilations of the children, as many and in the same order.            *)
(* "hiring OR discount" is {operator: OR, conditions: [{text: hiring},     *)
(* {text: discount}]}.                                                     *)
C17_StructuralCompile ==
    pc = "compiled" =>
        /\ Renders(filter, jmap)
        /\ query = Q_OROperator =>
              jmap = [operator   |-> "OR",
                      conditions |-> <<("text" :> hiring),
                                       ("text" :> discount)>>]

C17_Witness ==
    /\ pc = "compiled"
    /\ IsBool(filter, "OR")
    /\ Len(jmap["conditions"]) = 2
    /\ jmap["conditions"][1] = ("hasAttachment" :> TRUE)
    /\ "operator" \in DOMAIN jmap["conditions"][2]
    /\ jmap["conditions"][2]["operator"] = "AND"
    /\ jmap["conditions"][2]["conditions"][2] =
          ("text" :> <<"o", "p", "e", "r", "a", "t", "o", "r", ":", "x">>)

----------------------------------------------------------------------------
(* Concurrent calls of ParseQuery, each run one step at a time.  A call is *)
(* a record: its argument (query), the tokenizer ParseQuery makes for it   *)
(* (input, pos), its parser's current token, and the Go call stack of its  *)
(* goroutine: the function it is in (ctl), the value being returned (val), *)
(* the conditions of the loop it is in (conditions) and the frames of the  *)
(* callers waiting for a result (stack).  overlapped records that another  *)
(* call was in flight when this one took a step.                           *)

Calls == {1, 2}

MaxCallPieces == 3

CallPieces == { <<"a", " ">>, <<"(">>, <<")">>, <<"O", "R", " ">>,
                <<"N", "O", "T", " ">> }

CallQueries == Concats(CallPieces, MaxCallPieces) \cup { Q_Precedence }

PeerQueries == { Q_Parentheses, <<"b", " ", "a">>, <<>> }

newCall(q) ==
    [query |-> q, input |-> <<>>, pos |-> 0, current |-> token(tokenEOF, <<>>),
     ctl |-> "ParseQuery", val |-> nil, conditions |-> <<>>, stack |-> <<>>,
     result |-> nil, overlapped |-> FALSE]

frame(fn, conditions) == [fn |-> fn, conditions |-> conditions]

(* A variant of callAdvance that does not move past an AND or OR.          *)
callAdvance_KeepOperator(c) ==
    IF c.current.typ = tokenAND \/ c.current.typ = tokenOR
    THEN c
    ELSE [c EXCEPT !.pos = nextToken(c.input, c.pos).pos,
                   !.current = nextToken(c.input, c.pos).tok]

(* p.advance(): p.current = p.tokenizer.nextToken().                       *)
callAdvance(c) ==
    [c EXCEPT !.pos = nextToken(c.input, c.pos).pos,
              !.current = nextToken(c.input, c.pos).tok]

callEnter(c, fn, waiting) ==
    [c EXCEPT !.ctl = fn, !.stack = Append(c.stack, waiting)]

callReturn(c, f) == [c EXCEPT !.ctl = "return", !.val = f]

(* A variant of callResume in which a loop turn is a call of its own: the  *)
(* frame of a loop stays on the stack when its operand returns.            *)
callResume_LoopByCall(c) ==
    LET top  == c.stack[Len(c.stack)]
        back == [c EXCEPT !.stack = SubSeq(c.stack, 1, Len(c.stack) - 1)]
    IN  CASE top.fn = "parseNotExpr" ->
                callReturn(back, negate([f |-> c.val, p |-> c.pos]).f)
          [] top.fn = "parsePrimary" ->
                IF c.current.typ = tokenRParen
                THEN callAdvance(back)
                ELSE back
          [] top.fn = "parseAndExpr" ->
                IF c.val = nil THEN back
                ELSE [back EXCEPT !.ctl = "andLoop", !.conditions = <<c.val>>]
          [] top.fn = "andLoop" ->
                [c EXCEPT !.ctl = "andLoop",
                          !.conditions = appendOperand(top.conditions, c.val)]
          [] top.fn = "parseOrExpr" ->
                IF c.val = nil THEN back
                ELSE [back EXCEPT !.ctl = "orLoop", !.conditions = <<c.val>>]
          [] top.fn = "orLoop" ->
                [c EXCEPT !.ctl = "orLoop",
                          !.conditions = appendOperand(top.conditions, c.val)]

(* A return reaches the caller whose frame is on top of the stack.         *)
callResume(c) ==
    LET top  == c.stack[Len(c.stack)]
        back == [c EXCEPT !.stack = SubSeq(c.stack, 1, Len(c.stack) - 1)]
    IN  CASE top.fn = "parseNotExpr" ->
                callReturn(back, negate([f |-> c.val, p |-> c.pos]).f)
          [] top.fn = "parsePrimary" ->
                IF c.current.typ = tokenRParen
                THEN callAdvance(back)
                ELSE back
          [] top.fn = "parseAndExpr" ->
                IF c.val = nil THEN back
                ELSE [back EXCEPT !.ctl = "andLoop", !.conditions = <<c.val>>]
          [] top.fn = "andLoop" ->
                [back EXCEPT !.ctl = "andLoop",
                             !.conditions = appendOperand(top.conditions, c.val)]
          [] top.fn = "parseOrExpr" ->
                IF c.val = nil THEN back
                ELSE [back EXCEPT !.ctl = "orLoop", !.conditions = <<c.val>>]
          [] top.fn = "orLoop" ->
                [back EXCEPT !.ctl = "orLoop",
                             !.conditions = appendOperand(top.conditions, c.val)]

(* The entry of ParseQuery: TrimSpace and the empty check.                 *)
callBegin(c) ==
    IF TrimSpace(c.query) = <<>>
    THEN [c EXCEPT !.ctl = "done", !.result = nil]
    ELSE [c EXCEPT !.input = TrimSpace(c.query), !.pos = 0,
                   !.ctl = "newParser"]

(* One step of the parser of a call, by the function it is in.             *)
callStep(c) ==
    CASE c.ctl = "newParser" ->
            callAdvance([c EXCEPT !.ctl = "parse"])
      [] c.ctl = "parse" ->
            IF c.current.typ = tokenEOF
            THEN [c EXCEPT !.ctl = "done", !.result = nil]
            ELSE [c EXCEPT !.ctl = "parseOrExpr"]
      [] c.ctl = "parseOrExpr" ->
            callEnter(c, "parseAndExpr", frame("parseOrExpr", <<>>))
      [] c.ctl = "parseAndExpr" ->
            callEnter(c, "parseNotExpr", frame("parseAndExpr", <<>>))
      [] c.ctl = "parseNotExpr" ->
            IF c.current.typ = tokenNOT
            THEN callEnter(callAdvance(c), "parseNotExpr",
                           frame("parseNotExpr", <<>>))
            ELSE [c EXCEPT !.ctl = "parsePrimary"]
      [] c.ctl = "parsePrimary" ->
            IF c.current.typ = tokenLParen
            THEN callEnter(callAdvance(c), "parseOrExpr",
                           frame("parsePrimary", <<>>))
            ELSE [c EXCEPT !.ctl = "parseTerm"]
      [] c.ctl = "parseTerm" ->
            IF c.current.typ # tokenWord
            THEN callReturn(c, nil)
            ELSE callReturn(callAdvance(c), parseFieldValue(c.current.value))
      [] c.ctl = "andLoop" ->
            IF c.current.typ = tokenAND
            THEN callEnter(callAdvance(c), "parseNotExpr",
                           frame("andLoop", c.conditions))
            ELSE IF c.current.typ = tokenWord \/ c.current.typ = tokenNOT
                    \/ c.current.typ = tokenLParen
                 THEN callEnter(c, "parseNotExpr",
                                frame("andLoop", c.conditions))
                 ELSE callReturn(c, andResult([conditions |-> c.conditions,
                                               p |-> c.pos]).f)
      [] c.ctl = "orLoop" ->
            IF c.current.typ = tokenOR
            THEN callEnter(callAdvance(c), "parseAndExpr",
                           frame("orLoop", c.conditions))
            ELSE callReturn(c, orResult([conditions |-> c.conditions,
                                         p |-> c.pos]).f)
      [] c.ctl = "return" ->
            IF c.stack = <<>>
            THEN [c EXCEPT !.ctl = "done", !.result = c.val]
            ELSE callResume(c)

(* Mutant of receiver: every call reads the cursor of the first call.      *)
receiver_SharedCursor(cs, i) == [cs[i] EXCEPT !.pos = cs[1].pos]

(* The parser a method runs on: the one its own ParseQuery call made.      *)
receiver(cs, i) == cs[i]

InFlight(c) == c.ctl \notin {"ParseQuery", "done"}

Overlaps(i) == \E j \in Calls \ {i} : InFlight(calls[j])

Stepped(c, i) == [c EXCEPT !.overlapped = c.overlapped \/ Overlaps(i)]

InitCalls ==
    /\ query = <<>>
    /\ pc = "calls"
    /\ filter = nil
    /\ jmap = nil
    /\ del = nil
    /\ client = nil
    /\ ret = nil
    /\ tokenizer = nil
    /\ \E q1 \in CallQueries : \E q2 \in {q1} \cup PeerQueries :
          calls = <<newCall(q1), newCall(q2)>>

BeginCall(i) ==
    /\ calls[i].ctl = "ParseQuery"
    /\ calls' = [calls EXCEPT ![i] = Stepped(callBegin(receiver(calls, i)), i)]
    /\ UNCHANGED <<query, pc, filter, jmap, del, client, ret, tokenizer>>

StepCall(i) ==
    /\ InFlight(calls[i])
    /\ calls' = [calls EXCEPT ![i] = Stepped(callStep(receiver(calls, i)), i)]
    /\ UNCHANGED <<query, pc, filter, jmap, del, client, ret, tokenizer>>

NextCalls == \E i \in Calls : BeginCall(i) \/ StepCall(i)

SpecCalls == InitCalls /\ [][NextCalls]_vars

(* C18: the result of ParseQuery depends only on its input string: every   *)
(* call, whatever steps of other calls are interleaved with its own,       *)
(* returns the tree the query yields when parsed alone, so two calls with  *)
(* the same query return identical trees.                                  *)
C18_CallsIndependent ==
    /\ \A i \in DOMAIN calls :
          calls[i].ctl = "done" => calls[i].result = ParseQuery(calls[i].query)
    /\ \A i \in DOMAIN calls : \A j \in DOMAIN calls :
          calls[i].ctl = "done" /\ calls[j].ctl = "done"
             /\ calls[i].query = calls[j].query =>
          calls[i].result = calls[j].result

C18_Witness ==
    /\ Len(calls) = 2
    /\ calls[1].ctl = "done" /\ calls[2].ctl = "done"
    /\ calls[1].overlapped /\ calls[2].overlapped
    /\ calls[1].query = calls[2].query
    /\ IsBool(calls[1].result, "OR")
    /\ calls[2].result = calls[1].result

----------------------------------------------------------------------------
(* q with a space put in before position i (i = Len(q) + 1: at the end),   *)
(* and q without the byte at position i.                                   *)
SpaceBefore(q, i) == SubSeq(q, 1, i - 1) \o <<" ">> \o SubSeq(q, i, Len(q))

Without(q, i) == SubSeq(q, 1, i - 1) \o SubSeq(q, i + 1, Len(q))

(* C19: outside quoted spans each "(" and ")" is a token of its own, also  *)
(* when it touches a word: the tokens of the query are those of the text   *)
(* before it, the parenthesis, and those of the text after it.  So adding  *)
(* or removing white space directly around a parenthesis changes neither   *)
(* the tokens nor the parse result; "a(b OR c)d" parses like               *)
(* "a ( b OR c ) d".  (Parentheses with no quote before them.)             *)
C19_ParensStandalone ==
    pc # "start" =>
        /\ \A i \in 1..Len(query) :
              (query[i] = "(" \/ query[i] = ")")
                 /\ (\A m \in 1..(i - 1) : ~IsQuote(query[m])) =>
              /\ TypVal(Tokens(query, 0)) =
                    TypVal(Tokens(SubSeq(query, 1, i - 1), 0))
                       \o <<token(IF query[i] = "(" THEN tokenLParen
                                  ELSE tokenRParen, <<query[i]>>)>>
                       \o TypVal(Tokens(SubSeq(query, i + 1, Len(query)), 0))
              /\ TypVal(Tokens(SpaceBefore(query, i), 0)) =
                    TypVal(Tokens(query, 0))
              /\ TypVal(Tokens(SpaceBefore(query, i + 1), 0)) =
                    TypVal(Tokens(query, 0))
              /\ ParseQuery(SpaceBefore(query, i)) = filter
              /\ ParseQuery(SpaceBefore(query, i + 1)) = filter
              /\ i > 1 /\ IsSpace(query[i - 1]) =>
                    ParseQuery(Without(query, i - 1)) = filter
              /\ i < Len(query) /\ IsSpace(query[i + 1]) =>
                    ParseQuery(Without(query, i + 1)) = filter
        /\ query = Q_Touching =>
              /\ filter = ParseQuery(Q_Spaced)
              /\ filter = BoolFilter("AND",
                             <<Text(<<"a">>),
                               BoolFilter("OR", <<Text(<<"b">>), Text(<<"c">>)>>),
                               Text(<<"d">>)>>)

C19_Witness ==
    /\ pc = "parsed"
    /\ Len(query) = 5
    /\ ~HasQuote(query)
    /\ query[1] = "a" /\ query[2] = "(" /\ query[3] = "a" /\ query[4] = ")"
    /\ query[5] = "a"
    /\ filter = BoolFilter("AND", <<Text(<<"a">>), Text(<<"a">>), Text(<<"a">>)>>)
    /\ filter = ParseQuery(<<"a", " ", "(", " ", "a", " ", ")", " ", "a">>)

----------------------------------------------------------------------------
(* The search command: runSearch hands the query argument to Client.Search *)
(* in a SearchFilters value, and Search sends an Email/query request.  A   *)
(* *bool is a sequence: <<>> for nil, <<b>> for a pointer to b.            *)

SearchFilters(Query, MailboxID, Limit) ==
    [Query |-> Query, From |-> <<>>, To |-> <<>>, Subject |-> <<>>,
     HasAttachment |-> <<>>, IsUnread |-> <<>>, MailboxID |-> MailboxID,
     Before |-> <<>>, After |-> <<>>, Limit |-> Limit]

(* "if cond { filter[key] = val }".                                        *)
setKey(cond, key, val) == IF cond THEN (key :> val) ELSE <<>>

(* The filter map Client.Search builds.                                    *)
searchFilter(filters) ==
    setKey(filters.Query # <<>>, "text", filters.Query)
    @@ setKey(filters.From # <<>>, "from", filters.From)
    @@ setKey(filters.To # <<>>, "to", filters.To)
    @@ setKey(filters.Subject # <<>>, "subject", filters.Subject)
    @@ setKey(filters.HasAttachment # <<>>, "hasAttachment",
              IF filters.HasAttachment # <<>>
              THEN filters.HasAttachment[1] ELSE FALSE)
    @@ setKey(filters.IsUnread = <<TRUE>>, "notKeyword",
              <<"$", "s", "e", "e", "n">>)
    @@ setKey(filters.IsUnread = <<FALSE>>, "hasKeyword",
              <<"$", "s", "e", "e", "n">>)
    @@ setKey(filters.MailboxID # <<>>, "inMailbox", filters.MailboxID)
    @@ setKey(filters.Before # <<>>, "before", filters.Before)
    @@ setKey(filters.After # <<>>, "after", filters.After)

(* A variant of the limit with no upper cap.                               *)
searchLimit_NoCap(limit) == IF limit <= 0 THEN 50 ELSE limit

searchLimit(limit) ==
    IF limit <= 0 THEN 50 ELSE IF limit > 500 THEN 500 ELSE limit

(* The arguments of the Email/query method call.                           *)
emailQuery(filters) ==
    [filter |-> searchFilter(filters), limit |-> searchLimit(filters.Limit)]

MaxSearchPieces == 3

spam   == <<"s", "p", "a", "m">>
Q_SearchAnd == fromAlice \o sp \o kwAND \o sp \o subjectMeeting
Q_SearchNot == kwNOT \o sp \o spam

SearchQueries ==
    Concats(Pieces, MaxSearchPieces)
       \cup { Q_OROperator, Q_SearchAnd, Q_SearchNot, Q_Hello }

MailboxIDs == { <<>>, <<"m", "1">> }

Limits == { -1, 0, 1, 10, 50, 500, 501 }

InitSearch ==
    /\ query \in SearchQueries
    /\ pc = "start"
    /\ filter = nil
    /\ jmap = nil
    /\ calls = <<>>
    /\ del = nil
    /\ client = nil
    /\ ret = nil
    /\ tokenizer = nil

(* runSearch and Client.Search up to MakeRequest: the filters runSearch    *)
(* builds are in filter, the request Search sends is in jmap.              *)
CallSearch ==
    /\ pc = "start"
    /\ \E mailbox \in MailboxIDs : \E limit \in Limits :
          /\ filter' = SearchFilters(query, mailbox, limit)
          /\ jmap' = emailQuery(SearchFilters(query, mailbox, limit))
    /\ pc' = "sent"
    /\ UNCHANGED <<query, calls, del, client, ret, tokenizer>>

(* c.GetSession() fails: Search returns the error and sends nothing.       *)
SearchSessionError ==
    /\ pc = "start"
    /\ \E mailbox \in MailboxIDs : \E limit \in Limits :
          filter' = SearchFilters(query, mailbox, limit)
    /\ pc' = "failed"
    /\ UNCHANGED <<query, jmap, calls, del, client, ret, tokenizer>>

NextSearch == CallSearch \/ SearchSessionError

SpecSearch == InitSearch /\ [][NextSearch]_vars

(* C20: Client.Search turns the query string into the compiled filter      *)
(* before sending Email/query: for a query whose tree is a Boolean node    *)
(* (and no folder given) the filter sent is that node's wire object, with  *)
(* operator OR, AND or NOT as written and the compiled operands as         *)
(* conditions, not a single text condition holding the raw query;          *)
(* "hiring OR discount" is sent as operator OR with two conditions.        *)
C20_SearchSendsCompiledFilter ==
    pc = "sent" /\ "inMailbox" \notin DOMAIN jmap.filter
       /\ ParseQuery(query).typ = "BoolFilter" =>
        /\ jmap.filter # ("text" :> query)
        /\ jmap.filter = ToJMAP(ParseQuery(query))
        /\ query = Q_OROperator =>
              /\ jmap.filter["operator"] = "OR"
              /\ Len(jmap.filter["conditions"]) = 2

----------------------------------------------------------------------------
(* A filter sent restricts by mailbox: at its top level or in one of the   *)
(* conditions of a group.                                                  *)
MentionsMailbox(f) ==
    \/ "inMailbox" \in DOMAIN f
    \/ /\ "conditions" \in DOMAIN f
       /\ \E i \in 1..Len(f["conditions"]) :
             "inMailbox" \in DOMAIN f["conditions"][i]

(* C21: when Search is given both a query and a folder, the filter sent is *)
(* an AND group combining the query's filter with inMailbox = the mailbox  *)
(* id: an object with operator AND whose conditions are the query's filter *)
(* and {inMailbox: id}; when only a folder is given (empty query) the      *)
(* filter is {inMailbox: id} alone.                                        *)
C21_FolderCombinedByAnd ==
    pc = "sent" /\ MentionsMailbox(jmap.filter) =>
        IF query = <<>>
        THEN \E m \in MailboxIDs : jmap.filter = ("inMailbox" :> m)
        ELSE /\ DOMAIN jmap.filter = {"operator", "conditions"}
             /\ jmap.filter["operator"] = "AND"
             /\ Len(jmap.filter["conditions"]) = 2
             /\ \E m \in MailboxIDs : \E i \in 1..2 :
                   jmap.filter["conditions"][i] = ("inMailbox" :> m)

(* C24: the limit Client.Search sends in Email/query is always within      *)
(* 1..500: the requested limit when that is in 1..500, 50 when the         *)
(* requested limit is zero or negative, and 500 when it exceeds 500.       *)
C24_LimitClamped ==
    pc = "sent" =>
        /\ jmap.limit \in 1..500
        /\ filter.Limit \in 1..500 => jmap.limit = filter.Limit
        /\ filter.Limit <= 0 => jmap.limit = 50
        /\ filter.Limit > 500 => jmap.limit = 500

C24_Witness ==
    /\ pc = "sent"
    /\ filter.Limit > 500
    /\ jmap.limit = 500

----------------------------------------------------------------------------
(* The JMAP client (client.go).  The client's HTTP transport is modelled   *)
(* by the field http, the sequence of requests the client has sent; the    *)
(* server's answers are inputs of the calls.                               *)

SessionPath == "/jmap/session"

NewClient(tok) == [token |-> tok, session |-> <<>>, http |-> <<>>]

(* What the session endpoint can answer: no connection, a status other     *)
(* than 200, a body that does not decode, or a session.                    *)
Sessions ==
    { [APIURL |-> "api-1", AccountID |-> "acc-1"],
      [APIURL |-> "api-2", AccountID |-> "acc-2"] }

SessionReplies ==
    { [outcome |-> o, session |-> [APIURL |-> "", AccountID |-> ""]] :
          o \in {"unreachable", "401", "undecodable"} }
    \cup { [outcome |-> "200", session |-> s] : s \in Sessions }

httpGet(c, path) ==
    [c EXCEPT !.http = Append(@, [verb |-> "GET", url |-> path, method |-> ""])]

httpPost(c, url, method) ==
    [c EXCEPT !.http = Append(@, [verb |-> "POST", url |-> url,
                                  method |-> method])]

(* A variant of GetSession that never looks at the cached session.         *)
GetSession_AlwaysFetch(c, reply) ==
    IF reply.outcome # "200"
    THEN [c |-> httpGet(c, SessionPath), session |-> <<>>, err |-> TRUE]
    ELSE [c |-> [httpGet(c, SessionPath) EXCEPT !.session = <<reply.session>>],
          session |-> <<reply.session>>, err |-> FALSE]

(* GetSession: the pointer c.session is a sequence, empty when nil.        *)
GetSession(c, reply) ==
    IF c.session # <<>>
    THEN [c |-> c, session |-> c.session, err |-> FALSE]
    ELSE IF reply.outcome # "200"
         THEN [c |-> httpGet(c, SessionPath), session |-> <<>>, err |-> TRUE]
         ELSE [c |-> [httpGet(c, SessionPath) EXCEPT
                          !.session = <<reply.session>>],
               session |-> <<reply.session>>, err |-> FALSE]

(* MakeRequest: ok says whether the POST is answered with a decodable 200. *)
MakeRequest(c, method, reply, ok) ==
    LET s == GetSession(c, reply)
    IN  IF s.err
        THEN [c |-> s.c, err |-> TRUE]
        ELSE [c |-> httpPost(s.c, s.session[1].APIURL, method),
              err |-> ~ok]

AccountID(c, reply) ==
    LET s == GetSession(c, reply)
    IN  IF s.err
        THEN [c |-> s.c, id |-> "", err |-> TRUE]
        ELSE [c |-> s.c, id |-> s.session[1].AccountID, err |-> FALSE]

(* One server as a call sees it: the session endpoint's answer, whether a  *)
(* POST succeeds, whether the email exists, whether a Trash mailbox        *)
(* exists and whether Email/set reports no error for the email.            *)
Servers ==
    [session : SessionReplies, post : BOOLEAN, found : BOOLEAN,
     trash : BOOLEAN, set : BOOLEAN]

GetEmailByID(c, srv) ==
    LET s == GetSession(c, srv.session)
        m == MakeRequest(s.c, "Email/get", srv.session, srv.post)
    IN  IF s.err THEN [c |-> s.c, err |-> TRUE]
        ELSE IF m.err THEN m
        ELSE [c |-> m.c, err |-> ~srv.found]

GetMailboxes(c, srv) ==
    LET s == GetSession(c, srv.session)
    IN  IF s.err THEN [c |-> s.c, err |-> TRUE]
        ELSE MakeRequest(s.c, "Mailbox/get", srv.session, srv.post)

GetMailboxByRole(c, role, srv) ==
    LET l == GetMailboxes(c, srv)
    IN  IF l.err THEN l
        ELSE [c |-> l.c, err |-> ~(role = "trash" /\ srv.trash)]

MoveEmail(c, srv) ==
    LET s == GetSession(c, srv.session)
        m == MakeRequest(s.c, "Email/set", srv.session, srv.post)
    IN  IF s.err THEN [c |-> s.c, err |-> TRUE]
        ELSE IF m.err THEN m
        ELSE [c |-> m.c, err |-> ~srv.set]

DeleteEmail(c, srv) ==
    LET trash == GetMailboxByRole(c, "trash", srv)
    IN  IF trash.err THEN trash ELSE MoveEmail(trash.c, srv)

----------------------------------------------------------------------------
(* The command "email delete" (package email, runDelete).  The variable    *)
(* del holds one run of the command: the streams f.IOStreams with what has *)
(* been read from In and written to ErrOut and Out, the environment        *)
(* variable FM_UNSAFE, the flags opts, the number of token lookups made by *)
(* f.TokenSource and the position in runDelete.  f.jmapClient is client,   *)
(* and ret is what runDelete returned.                                     *)

IsInteractive(s) == s.stdinIsTTY /\ s.stdoutIsTTY

(* A variant of IsSafeMode that does not read the environment.             *)
IsSafeMode_IgnoreEnv(s, FM_UNSAFE) == ~s.stdinIsTTY

IsSafeMode(s, FM_UNSAFE) ==
    IF FM_UNSAFE = "1" THEN FALSE ELSE ~s.stdinIsTTY

HasPrefix(s, prefix) ==
    Len(s) >= Len(prefix) /\ SubSeq(s, 1, Len(prefix)) = prefix

(* The test of the answer read at the prompt (runDelete, negated).         *)
confirms(response) == HasPrefix(ToLower(TrimSpace(response)), <<"y">>)

SafeModeError == [err |-> "SafeModeError", Command |-> "email delete"]
CancelError   == [err |-> "CancelError", Command |-> ""]
otherError    == [err |-> "error", Command |-> ""]
noError       == [err |-> "nil", Command |-> ""]

promptText == "Delete this email? [y/N] "
movedText  == "Moved to Trash."

(* The values of FM_UNSAFE tried: unset, 1, and a value that is not 1.     *)
EnvValues == {"", "1", "true"}

(* The lines a user may type at the prompt; the empty line also stands for *)
(* end of input, where scanner.Scan() is false and response stays "".      *)
Responses ==
    { <<>>, <<"y">>, <<"Y">>, <<"y", "e", "s">>, <<"Y", "E", "S">>,
      <<" ", "y">>, <<"y", "o">>, <<"n">>, <<"N">>, <<"n", "o">>,
      <<"o", "k", "a", "y">>, <<" ">> }

InitDelete ==
    /\ query = <<>>
    /\ pc = "start"
    /\ filter = nil
    /\ jmap = nil
    /\ calls = <<>>
    /\ client = nil
    /\ ret = nil
    /\ tokenizer = nil
    /\ \E in, out, yes, unsafe \in BOOLEAN : \E env \in EnvValues :
          del = [IOStreams |-> [stdinIsTTY |-> in, stdoutIsTTY |-> out,
                                In |-> <<>>, ErrOut |-> <<>>, Out |-> <<>>],
                 FM_UNSAFE |-> env,
                 opts |-> [Yes |-> yes, Unsafe |-> unsafe],
                 TokenSource |-> 0]

(* The end of runDelete: client.DeleteEmail and the message on Out.        *)
deleteAndReport(d, c, srv) ==
    LET r == DeleteEmail(c, srv)
    IN  IF r.err
        THEN [del |-> d, client |-> r.c, ret |-> otherError, pc |-> "done"]
        ELSE [del |-> [d EXCEPT !.IOStreams.Out = Append(@, movedText)],
              client |-> r.c, ret |-> noError, pc |-> "done"]

(* runDelete after f.JMAPClient() gave the client c, up to the prompt.     *)
confirmOrDelete(d, c, srv) ==
    LET e == GetEmailByID(c, srv)
    IN  IF ~d.opts.Yes /\ IsInteractive(d.IOStreams)
        THEN IF e.err
             THEN [del |-> d, client |-> e.c, ret |-> otherError,
                   pc |-> "done"]
             ELSE [del |-> [d EXCEPT !.IOStreams.ErrOut =
                                         Append(@, promptText)],
                   client |-> e.c, ret |-> nil, pc |-> "prompt"]
        ELSE deleteAndReport(d, c, srv)

(* Factory.JMAPClient on a factory without a client: one token lookup.     *)
JMAPClient(d, tokenFound) ==
    [del |-> [d EXCEPT !.TokenSource = @ + 1],
     client |-> IF tokenFound THEN NewClient("token") ELSE nil,
     err |-> ~tokenFound]

(* runDelete from its first line to the prompt or to its return.           *)
runDelete(d, tokenFound, srv) ==
    LET f == JMAPClient(d, tokenFound)
    IN  IF IsSafeMode(d.IOStreams, d.FM_UNSAFE) /\ ~d.opts.Unsafe
        THEN [del |-> d, client |-> nil, ret |-> SafeModeError,
              pc |-> "done"]
        ELSE IF f.err
        THEN [del |-> f.del, client |-> nil, ret |-> otherError,
              pc |-> "done"]
        ELSE confirmOrDelete(f.del, f.client, srv)

(* runDelete from the answer read at the prompt to its return.             *)
answer(d, c, response, srv) ==
    LET read == [d EXCEPT !.IOStreams.In = Append(@, response)]
    IN  IF ~confirms(response)
        THEN [del |-> read, client |-> c, ret |-> CancelError, pc |-> "done"]
        ELSE deleteAndReport(read, c, srv)

RunDelete ==
    /\ pc = "start"
    /\ \E tokenFound \in BOOLEAN : \E srv \in Servers :
          LET r == runDelete(del, tokenFound, srv)
          IN  /\ del' = r.del
              /\ client' = r.client
              /\ ret' = r.ret
              /\ pc' = r.pc
    /\ UNCHANGED <<query, filter, jmap, calls, tokenizer>>

AnswerPrompt ==
    /\ pc = "prompt"
    /\ \E response \in Responses : \E srv \in Servers :
          LET r == answer(del, client, response, srv)
          IN  /\ del' = r.del
              /\ client' = r.client
              /\ ret' = r.ret
              /\ pc' = r.pc
    /\ UNCHANGED <<query, filter, jmap, calls, tokenizer>>

NextDelete == RunDelete \/ AnswerPrompt

SpecDelete == InitDelete /\ [][NextDelete]_vars

(* The requests of one method the client has sent.                         *)
Sent(method) ==
    IF client = nil THEN {}
    ELSE { i \in 1..Len(client.http) : client.http[i].method = method }

(* The run is one that safe mode blocks.                                   *)
InSafeMode ==
    /\ ~del.IOStreams.stdinIsTTY
    /\ ~del.opts.Unsafe
    /\ del.FM_UNSAFE # "1"

(* C22: when stdin is not a terminal and neither --unsafe nor FM_UNSAFE=1  *)
(* is given, "email delete" returns SafeModeError with no token looked up  *)
(* and no request sent by any client, so no email is moved; with --unsafe  *)
(* or FM_UNSAFE=1 the command does not return SafeModeError.               *)
C22_SafeModeBlocks ==
    /\ InSafeMode =>
          /\ del.TokenSource = 0
          /\ client = nil
          /\ Sent("Email/set") = {}
          /\ pc = "done" => ret = SafeModeError
    /\ (~InSafeMode /\ pc = "done") => ret.err # "SafeModeError"

C22_Witness ==
    /\ pc = "done"
    /\ InSafeMode
    /\ del.opts.Yes
    /\ ret = SafeModeError
    /\ tokenizer = nil

(* The answer starts with y or Y.                                          *)
StartsWithY(response) ==
    Len(response) > 0 /\ response[1] \in {"y", "Y"}

(* C23: unless --yes is given, a delete request (Email/set) is sent only   *)
(* after the prompt has been written and a response starting with y or Y   *)
(* has been read; after any other response the command returns             *)
(* CancelError and no delete request is sent.                              *)
C23_ConfirmationRequired ==
    /\ (~del.opts.Yes /\ Sent("Email/set") # {}) =>
          /\ del.IOStreams.ErrOut = <<promptText>>
          /\ Len(del.IOStreams.In) = 1
          /\ StartsWithY(del.IOStreams.In[1])
    /\ (Len(del.IOStreams.In) = 1 /\ ~StartsWithY(del.IOStreams.In[1])) =>
          /\ ret = CancelError
          /\ Sent("Email/set") = {}

----------------------------------------------------------------------------
(* One client used for a series of calls of GetSession, AccountID and      *)
(* MakeRequest; ret is what the last call returned.                        *)

MaxRequests == 5

Methods == {"Email/query", "Mailbox/get"}

returned(op, session, id, err) ==
    [op |-> op, session |-> session, id |-> id, err |-> err]

InitClient ==
    /\ query = <<>>
    /\ pc = "ready"
    /\ filter = nil
    /\ jmap = nil
    /\ calls = <<>>
    /\ del = nil
    /\ client = NewClient("token")
    /\ ret = returned("NewClient", <<>>, "", FALSE)
    /\ tokenizer = nil

CallGetSession ==
    /\ Len(client.http) < MaxRequests
    /\ \E reply \in SessionReplies :
          LET r == GetSession(client, reply)
          IN  /\ client' = r.c
              /\ ret' = returned("GetSession", r.session, "", r.err)
    /\ UNCHANGED <<query, pc, filter, jmap, calls, del, tokenizer>>

CallAccountID ==
    /\ Len(client.http) < MaxRequests
    /\ \E reply \in SessionReplies :
          LET r == AccountID(client, reply)
          IN  /\ client' = r.c
              /\ ret' = returned("AccountID", <<>>, r.id, r.err)
    /\ UNCHANGED <<query, pc, filter, jmap, calls, del, tokenizer>>

CallMakeRequest ==
    /\ Len(client.http) < MaxRequests
    /\ \E reply \in SessionReplies : \E method \in Methods : \E ok \in BOOLEAN :
          LET r == MakeRequest(client, method, reply, ok)
          IN  /\ client' = r.c
              /\ ret' = returned("MakeRequest", <<>>, "", r.err)
    /\ UNCHANGED <<query, pc, filter, jmap, calls, del, tokenizer>>

NextClient == CallGetSession \/ CallAccountID \/ CallMakeRequest

SpecClient == InitClient /\ [][NextClient]_vars

(* The number of calls a client has made to the session endpoint.          *)
Fetches(c) ==
    Cardinality({ i \in 1..Len(c.http) : c.http[i].verb = "GET" })

(* The last request a client has sent.                                     *)
LastRequest(c) == c.http[Len(c.http)]

(* C25: once a session is cached, every call of GetSession, AccountID or   *)
(* MakeRequest leaves it in place, makes no call to the session endpoint   *)
(* and works with that session (GetSession returns it, AccountID returns   *)
(* its account id, MakeRequest posts to its API URL); while none is        *)
(* cached every call makes one call to the session endpoint, and a call    *)
(* whose fetch fails (it returns an error having sent nothing after the    *)
(* fetch) leaves the cache empty.                                          *)
C25_SessionFetchedOnce ==
    [][ /\ client.session # <<>> =>
              /\ client'.session = client.session
              /\ Fetches(client') = Fetches(client)
              /\ ret'.op = "GetSession" =>
                    ~ret'.err /\ ret'.session = client.session
              /\ ret'.op = "AccountID" =>
                    ~ret'.err /\ ret'.id = client.session[1].AccountID
              /\ ret'.op = "MakeRequest" =>
                    /\ Len(client'.http) = Len(client.http) + 1
                    /\ LastRequest(client').url = client.session[1].APIURL
        /\ client.session = <<>> =>
              /\ Fetches(client') = Fetches(client) + 1
              /\ client'.session = <<>> => ret'.err
              /\ (ret'.err /\ LastRequest(client').verb = "GET") =>
                    client'.session = <<>>
      ]_vars

(* A fetch failed, the next one succeeded, and two later calls, a          *)
(* MakeRequest and then a GetSession, reused the session.                  *)
C25_Witness ==
    /\ pc = "ready"
    /\ client.session # <<>>
    /\ Len(client.http) = 3
    /\ Fetches(client) = 2
    /\ LastRequest(client).verb = "POST"
    /\ ret.op = "GetSession"
    /\ ret.session = client.session

----------------------------------------------------------------------------
(* One call of ParseQuery run step by step to its return.  The call is     *)
(* calls[1]; calls[2] is a call that has returned already.                 *)

MaxRunPieces == 2

RunPieces ==
    { <<"a", " ">>, <<"(">>, <<")">>, <<"O", "R", " ">>, <<"A", "N", "D", " ">>,
      <<"N", "O", "T", " ">> }

Q_OpenQuote    == <<"\"">>
Q_EndBackslash == <<"'", "a", "\\">>
Q_ColonQuote   == <<"t", "o", ":", "'">>

RunQueries ==
    Concats(RunPieces, MaxRunPieces)
       \cup { Q_Precedence, Q_Parentheses, Q_MultipleORs, Q_Grouped2,
               Q_QuotedAnd, Q_OpenQuote, Q_EndBackslash, Q_ColonQuote }

finished == [newCall(<<>>) EXCEPT !.ctl = "done"]

InitRun ==
    /\ query = <<>>
    /\ pc = "run"
    /\ filter = nil
    /\ jmap = nil
    /\ del = nil
    /\ client = nil
    /\ ret = nil
    /\ tokenizer = nil
    /\ \E q \in RunQueries : calls = <<newCall(q), finished>>

NextRun == BeginCall(1) \/ StepCall(1)

SpecRun == InitRun /\ [][NextRun]_vars

(* The call runs in one goroutine that always takes its next step.         *)
SpecRunFair == SpecRun /\ WF_vars(NextRun)

(* What a parser has left to consume: the bytes after the cursor and the   *)
(* token it holds, unless that is the end of input.                        *)
LeftOf(input, p) ==
    Len(input) - p.pos + (IF p.current.typ = tokenEOF THEN 0 ELSE 1)

Left(c) == LeftOf(c.input, [pos |-> c.pos, current |-> c.current])

(* From whatever position it is called, nextToken returns the end of input *)
(* or leaves the cursor further on.                                        *)
TokenProgress(input) ==
    \A pos \in 0..Len(input) :
        \/ nextToken(input, pos).tok.typ = tokenEOF
        \/ nextToken(input, pos).pos > pos

(* The step from c to d starts a turn of the OR loop or of the AND loop,   *)
(* or makes the recursive call for NOT or for "(".                         *)
StartsOrTurn(c, d)  == c.ctl = "orLoop" /\ d.ctl = "parseAndExpr"
StartsAndTurn(c, d) == c.ctl = "andLoop" /\ d.ctl = "parseNotExpr"
RecursForNot(c, d)  == c.ctl = "parseNotExpr" /\ d.ctl = "parseNotExpr"
RecursForGroup(c, d) == c.ctl = "parsePrimary" /\ d.ctl = "parseOrExpr"

(* The parser after the operand that a turn of the AND loop reads when the *)
(* turn starts without consuming a token.                                  *)
AfterOperand(c) ==
    parseNotExpr(c.input, [pos |-> c.pos, current |-> c.current]).p

StepConsumes(c, d) ==
    /\ Left(d) <= Left(c)
    /\ StartsOrTurn(c, d) => Left(d) < Left(c)
    /\ RecursForNot(c, d) => Left(d) < Left(c)
    /\ RecursForGroup(c, d) => Left(d) < Left(c)
    /\ StartsAndTurn(c, d) =>
          \/ Left(d) < Left(c)
          \/ LeftOf(c.input, AfterOperand(c)) < Left(c)

(* C26: ParseQuery terminates on every input: every call reaches its       *)
(* return; each nextToken call returns the end of input or moves the       *)
(* cursor forward by at least one byte; no step gives back what was        *)
(* consumed, and every turn of the OR loop and of the AND loop and every   *)
(* recursive call for NOT or "(" consumes at least one token.              *)
C26_Terminates ==
    /\ [](InFlight(calls[1]) => TokenProgress(calls[1].input))
    /\ [][InFlight(calls[1]) => StepConsumes(calls[1], calls'[1])]_vars
    /\ <>(calls[1].ctl = "done")

C26_Witness ==
    /\ pc = "run"
    /\ calls[1].ctl = "done"
    /\ calls[1].query = Q_Parentheses
    /\ IsBool(calls[1].result, "AND")
    /\ IsBool(calls[1].result.Conditions[1], "OR")

----------------------------------------------------------------------------
(* Queries with characters outside ASCII, as the UTF-8 bytes of each       *)
(* character: U+00E0 and U+00C5 (letters whose second byte is 0xA0 and     *)
(* 0x85), the white-space characters U+2003 and U+00A0, a space and the    *)
(* letters a and b.                                                        *)

MaxUniPieces == 3

aGrave  == <<"0xC3", "0xA0">>
ARing   == <<"0xC3", "0x85">>
emSpace == <<"0xE2", "0x80", "0x83">>
nbsp    == <<"0xC2", "0xA0">>

UniPieces == { <<"a">>, <<"b">>, <<" ">>, aGrave, ARing, emSpace, nbsp }

UniQueries == Concats(UniPieces, MaxUniPieces)

InitUni ==
    /\ query \in UniQueries
    /\ pc = "start"
    /\ filter = nil
    /\ jmap = nil
    /\ calls = <<>>
    /\ del = nil
    /\ client = nil
    /\ ret = nil
    /\ tokenizer = nil

SpecUni == InitUni /\ [][Next]_vars

(* The characters of a UTF-8 string, each as its bytes.                    *)
RuneLen(b) ==
    CASE b \in {"0xC2", "0xC3"} -> 2
      [] b = "0xE2"             -> 3
      [] OTHER                  -> 1

RECURSIVE Runes(_)
Runes(q) ==
    IF q = <<>> THEN <<>>
    ELSE <<SubSeq(q, 1, RuneLen(q[1]))>>
            \o Runes(SubSeq(q, RuneLen(q[1]) + 1, Len(q)))

IsSpaceRune(r) == r \in WideSpaces \/ (Len(r) = 1 /\ r[1] \in AsciiSpaces)

(* The words of a sequence of characters: the maximal runs of characters   *)
(* that are not white space, each as its bytes.                            *)
RECURSIVE CharWords(_, _, _)
CharWords(rs, i, word) ==
    IF i > Len(rs)
    THEN IF word = <<>> THEN <<>> ELSE <<word>>
    ELSE IF IsSpaceRune(rs[i])
         THEN (IF word = <<>> THEN <<>> ELSE <<word>>)
                 \o CharWords(rs, i + 1, <<>>)
         ELSE CharWords(rs, i + 1, word \o rs[i])

(* C27: token boundaries follow characters, not bytes: the tokens of a     *)
(* query of letters and white space are Words, one for each maximal run of *)
(* characters that are not white space (U+2003 and U+00A0 separate words   *)
(* as the space does), each with exactly the bytes typed (a word holding   *)
(* U+00E0 or U+00C5 is kept whole), and the tree is built from them.       *)
C27_CharacterBoundaries ==
    pc # "start" =>
        LET words == CharWords(Runes(query), 1, <<>>)
        IN  /\ TypVal(Tokens(TrimSpace(query), 0)) =
                  [i \in 1..Len(words) |-> token(tokenWord, words[i])]
            /\ filter = IF words = <<>> THEN nil
                        ELSE Collapse("AND",
                                [i \in 1..Len(words) |-> Text(words[i])])

----------------------------------------------------------------------------
(* One tokenizer and a series of nextToken calls on it, continued after    *)
(* the end of input; ret is the sequence of the tokens returned so far.    *)

MaxTokPieces == 4

MaxTokenCalls == 6

TokPieces ==
    { <<"\"">>, <<"'">>, <<"\\">>, <<" ">>, <<"(">>, <<")">>, <<"a">>, <<":">> }

TokQueries == Concats(TokPieces, MaxTokPieces)

newTokenizer(input) == [input |-> input, pos |-> 0]

InitTok ==
    /\ query = <<>>
    /\ pc = "tokens"
    /\ filter = nil
    /\ jmap = nil
    /\ calls = <<>>
    /\ del = nil
    /\ client = nil
    /\ ret = <<>>
    /\ \E q \in TokQueries : tokenizer = newTokenizer(q)

CallNextToken ==
    /\ Len(ret) < MaxTokenCalls
    /\ tokenizer' = [tokenizer EXCEPT
                        !.pos = nextToken(tokenizer.input, tokenizer.pos).pos]
    /\ ret' = Append(ret, nextToken(tokenizer.input, tokenizer.pos).tok)
    /\ UNCHANGED <<query, pc, filter, jmap, calls, del, client>>

NextTok == CallNextToken

SpecTok == InitTok /\ [][NextTok]_vars

(* The end of input has been returned by the last call.                    *)
AtEndOfInput(out) == out # <<>> /\ out[Len(out)].typ = tokenEOF

(* C28: a lexer is forward-only: over any series of nextToken calls its    *)
(* cursor never decreases and stays within 0..len(input) (also when an     *)
(* opening quote or a backslash is the last byte), its input is never      *)
(* changed, and once the end of input has been returned every later call   *)
(* returns it again.                                                       *)
C28_ForwardOnly ==
    /\ [](tokenizer.pos \in 0..Len(tokenizer.input))
    /\ [][ /\ tokenizer'.pos >= tokenizer.pos
           /\ tokenizer'.input = tokenizer.input
           /\ AtEndOfInput(ret) => AtEndOfInput(ret')
         ]_vars

C28_Witness ==
    /\ pc = "tokens"
    /\ tokenizer.input = Q_EndBackslash
    /\ tokenizer.pos = Len(tokenizer.input)
    /\ Len(ret) = 3
    /\ ret[1].typ = tokenWord
    /\ ret[2].typ = tokenEOF
    /\ ret[3].typ = tokenEOF

----------------------------------------------------------------------------
(* The leaves of a tree against the words the parser consumed.             *)

(* The leaf predicates of a tree, from left to right.                      *)
RECURSIVE Leaves(_)
RECURSIVE LeavesOfAll(_)
Leaves(f) ==
    IF f = nil
    THEN <<>>
    ELSE IF f.typ = "BoolFilter" THEN LeavesOfAll(f.Conditions) ELSE <<f>>

LeavesOfAll(fs) ==
    IF fs = <<>> THEN <<>> ELSE Leaves(Head(fs)) \o LeavesOfAll(Tail(fs))

(* The parser as ParseQuery leaves it: the token it holds is the point     *)
(* where parsing stopped.                                                  *)
StoppedFrom(input, p) ==
    IF p.current.typ = tokenEOF THEN p ELSE parseOrExpr(input, p).p

Stopped(input) ==
    IF input = <<>>
    THEN [pos |-> 0, current |-> token(tokenEOF, <<>>)]
    ELSE StoppedFrom(input, newParser(input))

(* The tokens that precede the token the parser p holds.                   *)
Preceding(toks, p) ==
    SelectSeq(toks, LAMBDA t : t.stop < p.pos \/ p.current.typ = tokenEOF)

(* The interpretation, in order, of the Word tokens among toks.            *)
Interpreted(toks) ==
    [i \in 1..Len(SelectSeq(toks, LAMBDA t : t.typ = tokenWord)) |->
        parseFieldValue(SelectSeq(toks, LAMBDA t : t.typ = tokenWord)[i].value)]

LeavesAreWordsBefore(input, f) ==
    Leaves(f) = Interpreted(Preceding(Tokens(input, 0), Stopped(input)))

(* The kinds of token the stopping point is said to be: the end of input,  *)
(* a ")" or an operator without operand.                                   *)
ListedStop(p) ==
    p.current.typ \in {tokenEOF, tokenRParen, tokenAND, tokenOR}

(* The parser p stopped right behind a ")".                                *)
BehindRParen(toks, p) ==
    /\ Preceding(toks, p) # <<>>
    /\ Preceding(toks, p)[Len(Preceding(toks, p))].typ = tokenRParen

(* C29 as stated: the leaves of the returned tree are, in order, the       *)
(* interpretation of all Word tokens before the point where parsing        *)
(* stopped, and that point is the end of input, a ")" or an operator.      *)
C29_StopsAsListed ==
    pc # "start" =>
        /\ LeavesAreWordsBefore(TrimSpace(query), filter)
        /\ ListedStop(Stopped(TrimSpace(query)))

(* C29: no term is reordered, duplicated or built and then discarded: the  *)
(* leaves of the returned tree are, in order, the interpretation of all    *)
(* Word tokens before the point where parsing stopped; that point is the   *)
(* end of input, a ")" or an operator, or else the token right behind the  *)
(* ")" of a group that yielded nothing.                                    *)
C29_LeavesInOrder ==
    pc # "start" =>
        /\ LeavesAreWordsBefore(TrimSpace(query), filter)
        /\ \/ ListedStop(Stopped(TrimSpace(query)))
           \/ BehindRParen(Tokens(TrimSpace(query), 0),
                           Stopped(TrimSpace(query)))

C29_Witness ==
    /\ pc = "parsed"
    /\ Len(Tokens(TrimSpace(query), 0)) = 5
    /\ filter = TextFilter("text", <<"a">>)
    /\ Stopped(TrimSpace(query)).current = token(tokenWord, <<"b">>)

----------------------------------------------------------------------------
(* One ParseQuery call run step by step over longer queries, to follow the *)
(* depth of its recursion.                                                 *)

MaxDepthPieces == 4

DepthQueries == Concats(RunPieces, MaxDepthPieces)

InitDepth ==
    /\ query = <<>>
    /\ pc = "depth"
    /\ filter = nil
    /\ jmap = nil
    /\ del = nil
    /\ client = nil
    /\ ret = nil
    /\ tokenizer = nil
    /\ \E q \in DepthQueries : calls = <<newCall(q), finished>>

NextDepth == BeginCall(1) \/ StepCall(1)

SpecDepth == InitDepth /\ [][NextDepth]_vars

(* The nesting depth of the parentheses among the tokens toks, from token  *)
(* i on with open parentheses open and deepest the deepest so far.         *)
RECURSIVE NestingFrom(_, _, _, _)
NestingFrom(toks, i, open, deepest) ==
    IF i > Len(toks)
    THEN deepest
    ELSE IF toks[i].typ = tokenLParen
         THEN NestingFrom(toks, i + 1, open + 1,
                          IF open + 1 > deepest THEN open + 1 ELSE deepest)
         ELSE IF toks[i].typ = tokenRParen /\ open > 0
              THEN NestingFrom(toks, i + 1, open - 1, deepest)
              ELSE NestingFrom(toks, i + 1, open, deepest)

Nesting(input) == NestingFrom(Tokens(input, 0), 1, 0, 0)

NotTokens(input) ==
    Len(SelectSeq(Tokens(input, 0), LAMBDA t : t.typ = tokenNOT))

(* The recursion depth of a call: the calls of parseOrExpr, parseAndExpr,  *)
(* parseNotExpr and parsePrimary that wait for a callee to return.         *)
RecursionDepth(c) == Len(c.stack)

(* C30 as stated: the recursion depth is bounded by the nesting depth of   *)
(* the parentheses alone and does not grow with the number of tokens: no   *)
(* query goes deeper than the shortest query of its nesting depth d, which *)
(* is d times "(" and a word and reaches depth 2 + 3 * d (two calls wait   *)
(* above the first operand, three more above that of each group).          *)
C30_DepthByNesting ==
    RecursionDepth(calls[1]) <= 2 + 3 * Nesting(calls[1].input)

(* C30: the recursion depth is bounded by the nesting depth of the         *)
(* parentheses and the number of NOT tokens: at a fixed nesting depth and  *)
(* number of NOT tokens it does not grow with the number of tokens.        *)
C30_DepthByNestingAndNots ==
    RecursionDepth(calls[1])
        <= 2 + 3 * Nesting(calls[1].input) + NotTokens(calls[1].input)

C30_Witness ==
    /\ pc = "depth"
    /\ InFlight(calls[1])
    /\ Nesting(calls[1].input) = 0
    /\ NotTokens(calls[1].input) = 3
    /\ Len(Tokens(calls[1].input, 0)) = 4
    /\ RecursionDepth(calls[1]) = 5

====
